---------------------------- MODULE Spec2Model ----------------------------
(***************************************************************************)
(* Ace-Paste text-sanitization engine (src/utils/invisibleCharacters.ts).  *)
(*                                                                         *)
(* A string is a sequence of 16-bit code units (naturals below 65536).     *)
(* Indices of the program are 0-based: unit i of s is s[i + 1].            *)
(***************************************************************************)
EXTENDS Integers, Sequences, FiniteSets, TLC

(***************************************************************************)
(* Bounds of the model.                                                    *)
(***************************************************************************)
\* longest text, in code units, of specification Spec
MaxLen == 4
\* number of successive stripInvisibleCharacters calls, each on the
\* previous call's return value
StripPasses == 2

\* the longest text given to cleanText / detectAllIssues, in tokens
MaxTokens == 3

(***************************************************************************)
(* The registry: INVISIBLE_CHARACTERS, the TAG and IVS ranges, invisibleSet *)
(***************************************************************************)
\* Array.from({ length: 16 }, (_, i) => 0xFE00 + i)
StandardVariationSelectors == [k \in 1..16 |-> 65024 + (k - 1)]

INVISIBLE_CHARACTERS_dup ==
  [ ZERO_WIDTH          |-> <<8203, 8204, 8205, 8288, 65279>>,
    BIDI_CONTROLS       |-> <<8206, 8207, 1564, 8234, 8235, 8236, 8237, 8238,
                              8294, 8295, 8296, 8297>>,
    MATH_OPERATORS      |-> <<8289, 8290, 8291, 8292>>,
    HYPHENATION         |-> <<173>>,
    VARIATION_SELECTORS |-> <<6155, 6156, 6157, 6158>> \o StandardVariationSelectors,
    FORMAT_CONTROLS     |-> <<847, 8288, 65529, 65530, 65531>>,
    SHORTHAND           |-> <<113824, 113825, 113826, 113827>> ]

INVISIBLE_CHARACTERS ==
  [ ZERO_WIDTH          |-> <<8203, 8204, 8205, 8288, 65279>>,
    BIDI_CONTROLS       |-> <<8206, 8207, 1564, 8234, 8235, 8236, 8237, 8238,
                              8294, 8295, 8296, 8297>>,
    MATH_OPERATORS      |-> <<8289, 8290, 8291, 8292>>,
    HYPHENATION         |-> <<173>>,
    VARIATION_SELECTORS |-> <<6155, 6156, 6157, 6158>> \o StandardVariationSelectors,
    FORMAT_CONTROLS     |-> <<847, 65529, 65530, 65531>>,
    SHORTHAND           |-> <<113824, 113825, 113826, 113827>> ]

\* Object.entries(INVISIBLE_CHARACTERS): the keys in insertion order
CategoryOrder ==
  << "ZERO_WIDTH", "BIDI_CONTROLS", "MATH_OPERATORS", "HYPHENATION",
     "VARIATION_SELECTORS", "FORMAT_CONTROLS", "SHORTHAND" >>

\* the nine counters of DetectionResult.categories
CategoryNames ==
  { CategoryOrder[k] : k \in 1..Len(CategoryOrder) }
    \cup {"TAG_CHARACTERS", "IVS_CHARACTERS"}

TAG_START == 917504
TAG_END == 917631
IVS_START == 917760
IVS_END == 917999

\* chars.includes(codePoint)
Includes(chars, codePoint) == \E k \in 1..Len(chars) : chars[k] = codePoint

invisibleSet ==
  UNION { { INVISIBLE_CHARACTERS[c][k] : k \in 1..Len(INVISIBLE_CHARACTERS[c]) }
          : c \in DOMAIN INVISIBLE_CHARACTERS }
    \cup (TAG_START..TAG_END) \cup (IVS_START..IVS_END)

(***************************************************************************)
(* String primitives of the host language                                  *)
(***************************************************************************)
IsHighSurrogate(u) == u >= 55296 /\ u <= 56319
IsLowSurrogate(u) == u >= 56320 /\ u <= 57343

\* text[i]
CharAt(text, i) == text[i + 1]

\* mutant: a high surrogate is combined with whatever unit follows it
codePointAt_noLowCheck(text, i) ==
  LET first == CharAt(text, i) IN
  IF IsHighSurrogate(first) /\ i + 1 < Len(text)
    THEN (first - 55296) * 1024 + (CharAt(text, i + 1) - 56320) + 65536
    ELSE first

\* String.prototype.codePointAt for 0 <= i < text.length
codePointAt(text, i) ==
  LET first == CharAt(text, i) IN
  IF IsHighSurrogate(first) /\ i + 1 < Len(text)
        /\ IsLowSurrogate(CharAt(text, i + 1))
    THEN (first - 55296) * 1024 + (CharAt(text, i + 1) - 56320) + 65536
    ELSE first


\* the least / greatest member of a non-empty set of integers
MinOf(S) == CHOOSE m \in S : \A n \in S : m <= n
MaxOf(S) == CHOOSE m \in S : \A n \in S : n <= m

(***************************************************************************)
(* Regular expressions of the host language, on code units (no u flag)     *)
(***************************************************************************)
\* \s, and what String.prototype.trim removes: WhiteSpace and LineTerminator
WhiteSpaceUnits ==
  {9, 10, 11, 12, 13, 32, 160, 5760, 8232, 8233, 8239, 8287, 12288, 65279}
    \cup (8192..8202)

IsWhiteSpace(u) == u \in WhiteSpaceUnits

\* LineTerminator: what "." does not match and what "^" and "$" look at
\* under the m flag
IsLineTerminator(u) == u \in {10, 13, 8232, 8233}

\* \w (and the two sides of \b)
IsWordChar(u) ==
  \/ (u >= 48 /\ u <= 57)
  \/ (u >= 65 /\ u <= 90)
  \/ u = 95
  \/ (u >= 97 /\ u <= 122)

\* String.prototype.toUpperCase / toLowerCase on one code unit; the texts
\* and words of the model hold no cased letter outside ASCII
ToUpperUnit(u) == IF u >= 97 /\ u <= 122 THEN u - 32 ELSE u
ToLowerUnit(u) == IF u >= 65 /\ u <= 90 THEN u + 32 ELSE u

toUpperCase(string) == [k \in 1..Len(string) |-> ToUpperUnit(string[k])]
toLowerCase(string) == [k \in 1..Len(string) |-> ToLowerUnit(string[k])]

\* the number of consecutive units of t, from index p on, that are in the
\* set class (a greedy quantifier over a character class)
RunLen(t, p, class) ==
  LET stops == { q \in p..(Len(t) - 1) : CharAt(t, q) \notin class } IN
  IF stops = {} THEN (IF p < Len(t) THEN Len(t) - p ELSE 0)
  ELSE MinOf(stops) - p

\* "^" under the m flag
AtLineStart(t, p) == p = 0 \/ IsLineTerminator(CharAt(t, p - 1))

\* "$" under the m flag
AtLineEnd(t, p) == p = Len(t) \/ IsLineTerminator(CharAt(t, p))

\* A match attempt gives [s, e, caps]: the match is units s..e-1 and caps
\* its capture groups (a group that took no part is the empty string, which
\* is what a replacement inserts for it); e = -1 is "no match here".
NoMatch == [s |-> 0, e |-> -1, caps |-> <<>>]

\* MARKDOWN_HEADER_REGEX = /^#{1,6}\s+/gm attempted at index p
MARKDOWN_HEADER_REGEX(t, p) ==
  LET k == RunLen(t, p, {35}) IN
  IF AtLineStart(t, p) /\ k >= 1 /\ k <= 6
       /\ RunLen(t, p + k, WhiteSpaceUnits) >= 1
    THEN [s |-> p, e |-> p + k + RunLen(t, p + k, WhiteSpaceUnits), caps |-> <<>>]
    ELSE NoMatch

\* one alternative of MARKDOWN_BOLD_REGEX: d d (.*?) d d for delimiter d;
\* the lazy group stops at the first closing pair it can reach without
\* crossing a line terminator
BoldAlternative(t, p, d) ==
  LET closers == { q \in (p + 2)..(Len(t) - 2) :
                     /\ CharAt(t, q) = d /\ CharAt(t, q + 1) = d
                     /\ \A r \in (p + 2)..(q - 1) : ~IsLineTerminator(CharAt(t, r)) }
  IN
  IF p + 1 < Len(t) /\ CharAt(t, p) = d /\ CharAt(t, p + 1) = d /\ closers # {}
    THEN [s |-> p, e |-> MinOf(closers) + 2,
          caps |-> <<SubSeq(t, p + 3, MinOf(closers))>>]
    ELSE NoMatch

\* MARKDOWN_BOLD_REGEX = /\*\*(.*?)\*\*|__(.*?)__/g attempted at index p
MARKDOWN_BOLD_REGEX(t, p) ==
  LET stars == BoldAlternative(t, p, 42)
      lines == BoldAlternative(t, p, 95)
  IN
  IF stars.e > p THEN [stars EXCEPT !.caps = <<stars.caps[1], <<>>>>]
  ELSE IF lines.e > p THEN [lines EXCEPT !.caps = <<<<>>, lines.caps[1]>>]
  ELSE NoMatch

\* REPEATING_CHARS_REGEX = /(.)\1{2,}/g attempted at index p
REPEATING_CHARS_REGEX(t, p) ==
  LET k == RunLen(t, p, {CharAt(t, p)}) IN
  IF ~IsLineTerminator(CharAt(t, p)) /\ k >= 3
    THEN [s |-> p, e |-> p + k, caps |-> << <<CharAt(t, p)>> >>]
    ELSE NoMatch

\* FORMATTING_LINES_REGEX = /^[-=_*]{3,}\s*$/gm attempted at index p; \s*
\* is greedy and gives units back until "$" holds
FORMATTING_LINES_REGEX(t, p) ==
  LET k == RunLen(t, p, {45, 61, 95, 42})
      w == RunLen(t, p + k, WhiteSpaceUnits)
      ends == { j \in 0..w : AtLineEnd(t, p + k + j) }
  IN
  IF AtLineStart(t, p) /\ k >= 3 /\ ends # {}
    THEN [s |-> p, e |-> p + k + MaxOf(ends), caps |-> <<>>]
    ELSE NoMatch

\* EXTRA_WHITESPACE_REGEX = /\s{2,}/g attempted at index p
EXTRA_WHITESPACE_REGEX(t, p) ==
  LET w == RunLen(t, p, WhiteSpaceUnits) IN
  IF w >= 2 THEN [s |-> p, e |-> p + w, caps |-> <<>>] ELSE NoMatch

\* mutant: the final pass collapses runs of 4 or more newlines only
ExcessNewlines_four(t, p) ==
  LET k == RunLen(t, p, {10}) IN
  IF k >= 4 THEN [s |-> p, e |-> p + k, caps |-> <<>>] ELSE NoMatch

\* /\n{3,}/g of cleanText's last statement, attempted at index p
ExcessNewlines(t, p) ==
  LET k == RunLen(t, p, {10}) IN
  IF k >= 3 THEN [s |-> p, e |-> p + k, caps |-> <<>>] ELSE NoMatch

\* String.prototype.trim
trim(string) ==
  LET keep == { k \in 1..Len(string) : ~IsWhiteSpace(string[k]) } IN
  IF keep = {} THEN <<>>
  ELSE SubSeq(string, MinOf(keep), MaxOf(keep))

(***************************************************************************)
(* Word exchanges: escapeRegex, the \b...\b matcher, generateWordVariations *)
(***************************************************************************)
\* mutant: the character class of escapeRegex lacks the dot
IsRegexSpecial_noDot(u) ==
  u \in {42, 43, 63, 94, 36, 123, 125, 40, 41, 124, 91, 93, 92}

\* the characters escapeRegex escapes: . * + ? ^ $ { } ( ) | [ ] \
IsRegexSpecial(u) ==
  u \in {46, 42, 43, 63, 94, 36, 123, 125, 40, 41, 124, 91, 93, 92}

\* string.replace(/[.*+?^${}()|[\]\\]/g, '\\$&')
escapeRegex(string) ==
  LET esc[k \in 0..Len(string)] ==
        IF k = 0 THEN <<>>
        ELSE esc[k - 1]
               \o (IF IsRegexSpecial(string[k]) THEN <<92, string[k]>>
                   ELSE <<string[k]>>)
  IN esc[Len(string)]

\* The atoms of a pattern source: a backslash makes the next unit a literal,
\* an unescaped "." matches any unit but a line terminator, any other unit
\* is a literal (escapeRegex leaves no other metacharacter unescaped).
PatternAtoms(source) ==
  LET parse[k \in 1..(Len(source) + 2)] ==
        IF k > Len(source) THEN <<>>
        ELSE IF source[k] = 92 /\ k < Len(source)
          THEN <<[any |-> FALSE, u |-> source[k + 1]]>> \o parse[k + 2]
        ELSE IF source[k] = 46
          THEN <<[any |-> TRUE, u |-> 46]>> \o parse[k + 1]
        ELSE <<[any |-> FALSE, u |-> source[k]]>> \o parse[k + 1]
  IN parse[1]

\* \b at index q of t
AtWordBoundary(t, q) ==
  (q > 0 /\ IsWordChar(CharAt(t, q - 1))) # (q < Len(t) /\ IsWordChar(CharAt(t, q)))

\* new RegExp(`\\b${source}\\b`, 'gi') attempted at index p: the atoms one
\* after the other, letters compared through their upper case (i flag)
WordRegex(source, t, p) ==
  LET atoms == PatternAtoms(source)
      n == Len(atoms)
  IN
  IF /\ n >= 1 /\ p + n <= Len(t)
     /\ \A k \in 1..n :
          IF atoms[k].any THEN ~IsLineTerminator(CharAt(t, p + k - 1))
          ELSE ToUpperUnit(CharAt(t, p + k - 1)) = ToUpperUnit(atoms[k].u)
     /\ AtWordBoundary(t, p)
     /\ AtWordBoundary(t, p + n)
    THEN [s |-> p, e |-> p + n, caps |-> <<>>]
    ELSE NoMatch

\* GetSubstitution: what a replacement string stands for at match m of t.
\* "$$" is "$", "$&" the match, "$`" the text before it, "$'" the text
\* after it, "$n" / "$nn" capture n when the pattern has that many groups;
\* any other "$" is itself.
IsDigit(u) == u >= 48 /\ u <= 57

GetSubstitution(replacement, t, m) ==
  LET n == Len(replacement)
      groups == Len(m.caps)
      expand[k \in 1..(n + 3)] ==
        IF k > n THEN <<>>
        ELSE IF replacement[k] # 36 \/ k = n
          THEN <<replacement[k]>> \o expand[k + 1]
        ELSE IF replacement[k + 1] = 36
          THEN <<36>> \o expand[k + 2]
        ELSE IF replacement[k + 1] = 38
          THEN SubSeq(t, m.s + 1, m.e) \o expand[k + 2]
        ELSE IF replacement[k + 1] = 96
          THEN SubSeq(t, 1, m.s) \o expand[k + 2]
        ELSE IF replacement[k + 1] = 39
          THEN SubSeq(t, m.e + 1, Len(t)) \o expand[k + 2]
        ELSE IF /\ k + 2 <= n
                /\ IsDigit(replacement[k + 1]) /\ IsDigit(replacement[k + 2])
                /\ (replacement[k + 1] - 48) * 10 + (replacement[k + 2] - 48) >= 1
                /\ (replacement[k + 1] - 48) * 10 + (replacement[k + 2] - 48) <= groups
          THEN m.caps[(replacement[k + 1] - 48) * 10 + (replacement[k + 2] - 48)]
                 \o expand[k + 3]
        ELSE IF /\ IsDigit(replacement[k + 1])
                /\ replacement[k + 1] - 48 >= 1
                /\ replacement[k + 1] - 48 <= groups
          THEN m.caps[replacement[k + 1] - 48] \o expand[k + 2]
        ELSE <<36>> \o expand[k + 1]
  IN expand[1]

\* createInvisibleRegex: the ranges pushed onto `ranges`, in order, and the
\* three supplementary-plane classes of `pattern`, each as <<first, last>>
InvisibleRegexRanges ==
  << <<173, 173>>, <<847, 847>>, <<1564, 1564>>, <<6155, 6158>>,
     <<8203, 8207>>, <<8234, 8238>>, <<8288, 8292>>, <<8294, 8297>>,
     <<65024, 65039>>, <<65279, 65279>>, <<65529, 65531>>,
     <<917504, 917631>>, <<917760, 917999>>, <<113824, 113827>> >>

\* the character a pattern with the u flag reads at index p: a surrogate
\* pair is one character of two units, any other unit is one character
UnicodeCharAt(t, p) ==
  IF /\ p + 1 < Len(t)
     /\ IsHighSurrogate(CharAt(t, p)) /\ IsLowSurrogate(CharAt(t, p + 1))
    THEN [ c |-> (CharAt(t, p) - 55296) * 1024 + (CharAt(t, p + 1) - 56320) + 65536,
           n |-> 2 ]
    ELSE [ c |-> CharAt(t, p), n |-> 1 ]

\* INVISIBLE_REGEX = createInvisibleRegex(), flags gu, attempted at index p
INVISIBLE_REGEX(t, p) ==
  IF \E r \in 1..Len(InvisibleRegexRanges) :
       /\ UnicodeCharAt(t, p).c >= InvisibleRegexRanges[r][1]
       /\ UnicodeCharAt(t, p).c <= InvisibleRegexRanges[r][2]
    THEN [s |-> p, e |-> p + UnicodeCharAt(t, p).n, caps |-> <<>>]
    ELSE NoMatch

\* the five module-level RegExp objects, all with the g flag
SharedRegExps ==
  { "MARKDOWN_HEADER_REGEX", "MARKDOWN_BOLD_REGEX", "REPEATING_CHARS_REGEX",
    "FORMATTING_LINES_REGEX", "EXTRA_WHITESPACE_REGEX" }

VARIABLES
  lastIndex         \* the lastIndex property of each module-level RegExp

\* A RegExp object is [name, source, lastIndex]: one of the five
\* module-level patterns by name, with the lastIndex it holds now; the final
\* pass's literal /\n{3,}/g by name, a new object each time it is evaluated;
\* or name "WORD" and the escaped word for new RegExp(`\\b${source}\\b`,
\* 'gi'). Exec is its match attempt at index p of t.
RegExpOf(name) ==
  [ name |-> name, source |-> <<>>,
    lastIndex |-> IF name \in SharedRegExps THEN lastIndex[name] ELSE 0 ]

WordRegExp(source) == [name |-> "WORD", source |-> source, lastIndex |-> 0]

Exec(regex, t, p) ==
  CASE regex.name = "MARKDOWN_HEADER_REGEX"  -> MARKDOWN_HEADER_REGEX(t, p)
    [] regex.name = "MARKDOWN_BOLD_REGEX"    -> MARKDOWN_BOLD_REGEX(t, p)
    [] regex.name = "REPEATING_CHARS_REGEX"  -> REPEATING_CHARS_REGEX(t, p)
    [] regex.name = "FORMATTING_LINES_REGEX" -> FORMATTING_LINES_REGEX(t, p)
    [] regex.name = "EXTRA_WHITESPACE_REGEX" -> EXTRA_WHITESPACE_REGEX(t, p)
    [] regex.name = "EXCESS_NEWLINES"        -> ExcessNewlines(t, p)
    [] regex.name = "INVISIBLE_REGEX"        -> INVISIBLE_REGEX(t, p)
    [] regex.name = "WORD"                   -> WordRegex(regex.source, t, p)

\* The matches a global regular expression finds in t from index p on,
\* leftmost first: after a match m the search resumes where m ended, after
\* a failed attempt one index further, or one character further for the
\* pattern with the u flag (no pattern of the program matches the empty
\* string).
AdvanceStringIndex(t, regex, p) ==
  IF regex.name = "INVISIBLE_REGEX" THEN p + UnicodeCharAt(t, p).n ELSE p + 1

RECURSIVE MatchesFrom(_, _, _)
Advance(t, regex, p, m) ==
  IF m.e > p THEN <<m>> \o MatchesFrom(t, regex, m.e)
  ELSE MatchesFrom(t, regex, AdvanceStringIndex(t, regex, p))

MatchesFrom(t, regex, p) ==
  IF p >= Len(t) THEN <<>> ELSE Advance(t, regex, p, Exec(regex, t, p))

\* mutant: the scan starts at the lastIndex the object holds and leaves
\* lastIndex at the end of the text
GlobalScan_sticky(t, regex) == [start |-> regex.lastIndex, lastIndex |-> Len(t)]

\* t.match(regex) and t.replace(regex, ...) with a global regex: lastIndex
\* is set to 0 before the first match attempt, and the attempt that finds
\* no further match sets it to 0 again
GlobalScan(t, regex) == [start |-> 0, lastIndex |-> 0]

Matches(t, regex) == MatchesFrom(t, regex, GlobalScan(t, regex).start)

\* the text between the matches ms of t kept, each match replaced by
\* GetSubstitution of the replacement string
Splice(t, ms, replacement) ==
  LET build[k \in 0..Len(ms)] ==
        IF k = 0 THEN <<>>
        ELSE build[k - 1]
               \o SubSeq(t, (IF k = 1 THEN 0 ELSE ms[k - 1].e) + 1, ms[k].s)
               \o GetSubstitution(replacement, t, ms[k])
  IN build[Len(ms)]
       \o SubSeq(t, (IF ms = <<>> THEN 0 ELSE ms[Len(ms)].e) + 1, Len(t))

\* t.replace(regex, replacement) for a global regular expression and a
\* replacement string
Replace(t, regex, replacement) == Splice(t, Matches(t, regex), replacement)

\* (t.match(regex) || []).length for a global regular expression
MatchCount(t, regex) == Len(Matches(t, regex))

\* mutant: duplicates are kept
Dedup_none(seq) == seq

\* [...new Set(variations)]: first occurrences, in order
Dedup(seq) ==
  LET keep[k \in 0..Len(seq)] ==
        IF k = 0 THEN <<>>
        ELSE IF \E j \in 1..(k - 1) : seq[j] = seq[k] THEN keep[k - 1]
        ELSE Append(keep[k - 1], seq[k])
  IN keep[Len(seq)]

\* word.endsWith(c) for a single unit c
EndsWith(word, c) == Len(word) >= 1 /\ word[Len(word)] = c

generateWordVariations(word, varianceSettings) ==
  IF ~varianceSettings.enabled THEN <<word>>
  ELSE
    LET cases ==
          IF varianceSettings.caseVariation
            THEN << toLowerCase(word), toUpperCase(word),
                    toUpperCase(IF word = <<>> THEN <<>> ELSE <<word[1]>>)
                      \o toLowerCase(SubSeq(word, 2, Len(word))) >>
            ELSE <<>>
        plurals ==
          IF varianceSettings.pluralVariation
            THEN (IF ~EndsWith(word, 115) THEN <<word \o <<115>>>> ELSE <<>>)
                 \o (IF EndsWith(word, 115) /\ Len(word) > 1
                       THEN <<SubSeq(word, 1, Len(word) - 1)>> ELSE <<>>)
                 \o (IF EndsWith(word, 121) /\ Len(word) > 1
                       THEN <<SubSeq(word, 1, Len(word) - 1) \o <<105, 101, 115>>>>
                       ELSE <<>>)
            ELSE <<>>
    IN Dedup(<<word>> \o cases \o plurals)

\* mutant: the rows that pass the filter come out last row first
enabledExchanges_reversed(list) ==
  LET keep[k \in 0..Len(list)] ==
        IF k = 0 THEN <<>>
        ELSE IF list[k].enabled /\ trim(list[k].badWord) # <<>>
                  /\ trim(list[k].goodWord) # <<>>
          THEN <<list[k]>> \o keep[k - 1]
        ELSE keep[k - 1]
  IN keep[Len(list)]

\* mutant: no row is filtered out
enabledExchanges_unfiltered(list) == list

\* wordExchanges.filter(ex => ex.enabled && ex.badWord.trim() && ex.goodWord.trim())
enabledExchanges(list) ==
  LET keep[k \in 0..Len(list)] ==
        IF k = 0 THEN <<>>
        ELSE IF list[k].enabled /\ trim(list[k].badWord) # <<>>
                  /\ trim(list[k].goodWord) # <<>>
          THEN Append(keep[k - 1], list[k])
        ELSE keep[k - 1]
  IN keep[Len(list)]

(***************************************************************************)
(* State                                                                   *)
(***************************************************************************)
VARIABLES
  text,             \* the caller's input text
  pc,               \* the running call and its position
  i,                \* loop index of the running detect / strip loop
  det,              \* detectInvisibleCharacters: its local `result`
  stripArg,         \* stripInvisibleCharacters: its parameter `text`
  stripRes,         \* stripInvisibleCharacters: its local `result`
  rets,             \* the values returned by the successive strip calls
  options,          \* detectAllIssues / cleanText: parameter `options`
  wordExchanges,    \* detectAllIssues / cleanText: parameter `wordExchanges`
  varianceSettings, \* cleanText: parameter `varianceSettings`
  cleanRes,         \* cleanText: its local `result`
  issues,           \* what detectAllIssues returned
  variations,       \* what generateWordVariations returned
  regexRes,         \* the text with the matches of INVISIBLE_REGEX removed
  returned          \* the caller's record of what each function returned first

\* the arguments of a detectAllIssues / cleanText call besides the text
args == <<options, wordExchanges, varianceSettings>>

\* what lives on between the calls
shared == <<lastIndex, returned>>

\* the subscription provider (useSubscription) and the main screen
VARIABLES
  subscription,       \* provider state `subscription`: <<>> for null, else <<s>>
  closure,            \* the `subscription` the callbacks of the last render captured
  usages,             \* the `usage` objects on the heap, by reference
  stored,             \* the item under STORAGE_KEYS.SUBSCRIPTION
  serverData,         \* subscriptionQuery.data as the last render captured it
  today,              \* the current day
  isLoading,          \* provider state `isLoading`
  loadPc,             \* loadSubscriptionData: its position
  storedSubscription, \* loadSubscriptionData: its local `storedSubscription`
  usageRet,           \* what the last incrementUsage call returned
  inputText,          \* screen state `inputText`: is it non-empty
  cleanedText,        \* screen state `cleanedText`: is it non-empty
  published,          \* how many cleaned texts setCleanedText was given
  timers              \* the re-processing callbacks waiting in setTimeout(..., 0)

provider ==
  <<subscription, closure, usages, stored, serverData, today, isLoading, loadPc,
    storedSubscription, usageRet>>

screen == <<inputText, cleanedText, published, timers>>

app == <<provider, screen>>

engine ==
  <<text, pc, i, det, stripArg, stripRes, rets, args, cleanRes, issues, variations,
    regexRes, shared>>

vars == <<engine, app>>

\* trialEnd?: Date, when the field is absent
NoDate == -1

\* a subscription as JSON text holds it: the usage object inline
NoJSON ==
  [ planId |-> "", status |-> "none", trialEnd |-> NoDate, currentPeriodEnd |-> 0,
    dailyProcessingCount |-> 0, lastResetDate |-> 0 ]

\* AsyncStorage holds no item under the key
NothingStored == [kind |-> "none", value |-> NoJSON]

\* the provider and the screen as their useState calls construct them, before
\* the first effect ran
NoApp ==
  /\ subscription = <<>>
  /\ closure = <<>>
  /\ usages = <<>>
  /\ stored = NothingStored
  /\ serverData = <<>>
  /\ today = 0
  /\ isLoading = TRUE
  /\ loadPc = "idle"
  /\ storedSubscription = NothingStored
  /\ usageRet = <<>>
  /\ inputText = FALSE
  /\ cleanedText = FALSE
  /\ published = 0
  /\ timers = <<>>

(***************************************************************************)
(* detectInvisibleCharacters                                               *)
(***************************************************************************)
\* the freshly constructed DetectionResult
EmptyResult ==
  [ totalCount |-> 0,
    categories |-> [c \in CategoryNames |-> 0],
    positions  |-> <<>> ]

\* mutant: the IVS range test is missing, IVS code points fall through to
\* the explicit lists, which do not hold them
Categorize_noIVS(categories, codePoint) ==
  IF codePoint >= TAG_START /\ codePoint <= TAG_END
    THEN [categories EXCEPT !.TAG_CHARACTERS = @ + 1]
    ELSE LET hits == { k \in 1..Len(CategoryOrder) :
                         Includes(INVISIBLE_CHARACTERS[CategoryOrder[k]], codePoint) }
         IN IF hits = {} THEN categories
            ELSE [categories EXCEPT ![CategoryOrder[MinOf(hits)]] = @ + 1]

\* mutant: the upper end of the TAG range is excluded
Categorize_tagEndExclusive(categories, codePoint) ==
  IF codePoint >= TAG_START /\ codePoint < TAG_END
    THEN [categories EXCEPT !.TAG_CHARACTERS = @ + 1]
  ELSE IF codePoint >= IVS_START /\ codePoint <= IVS_END
    THEN [categories EXCEPT !.IVS_CHARACTERS = @ + 1]
  ELSE LET hits == { k \in 1..Len(CategoryOrder) :
                       Includes(INVISIBLE_CHARACTERS[CategoryOrder[k]], codePoint) }
       IN IF hits = {} THEN categories
          ELSE [categories EXCEPT ![CategoryOrder[MinOf(hits)]] = @ + 1]

\* "Categorize the character": the two ranges, then the first explicit list
\* (in Object.entries order) that includes the code point
Categorize(categories, codePoint) ==
  IF codePoint >= TAG_START /\ codePoint <= TAG_END
    THEN [categories EXCEPT !.TAG_CHARACTERS = @ + 1]
  ELSE IF codePoint >= IVS_START /\ codePoint <= IVS_END
    THEN [categories EXCEPT !.IVS_CHARACTERS = @ + 1]
  ELSE LET hits == { k \in 1..Len(CategoryOrder) :
                       Includes(INVISIBLE_CHARACTERS[CategoryOrder[k]], codePoint) }
       IN IF hits = {} THEN categories
          ELSE [categories EXCEPT ![CategoryOrder[MinOf(hits)]] = @ + 1]

\* mutant: the recorded position is 1-based
DetectBody_oneBased(t, j, result) ==
  LET codePoint == codePointAt(t, j) IN
  IF codePoint = 0
    THEN [i |-> j + 1, result |-> result]
    ELSE [ i |-> IF codePoint > 65535 THEN j + 2 ELSE j + 1,
           result |->
             IF codePoint \in invisibleSet
               THEN [ totalCount |-> result.totalCount + 1,
                      positions  |-> Append(result.positions, j + 1),
                      categories |-> Categorize(result.categories, codePoint) ]
               ELSE result ]

\* one iteration of the for loop at index j (body, then j++)
DetectBody(t, j, result) ==
  LET codePoint == codePointAt(t, j) IN
  IF codePoint = 0
    THEN [i |-> j + 1, result |-> result]                 \* continue
    ELSE [ i |-> IF codePoint > 65535 THEN j + 2 ELSE j + 1,
           result |->
             IF codePoint \in invisibleSet
               THEN [ totalCount |-> result.totalCount + 1,
                      positions  |-> Append(result.positions, j),
                      categories |-> Categorize(result.categories, codePoint) ]
               ELSE result ]

RECURSIVE DetectLoop(_, _, _)
DetectLoop(t, j, result) ==
  IF j < Len(t)
    THEN LET s == DetectBody(t, j, result) IN DetectLoop(t, s.i, s.result)
    ELSE result

detectInvisibleCharacters(t) == DetectLoop(t, 0, EmptyResult)

(***************************************************************************)
(* stripInvisibleCharacters                                                *)
(***************************************************************************)
\* mutant: an invisible supplementary code point loses its first half only
StripBody_noSkip(t, j, result) ==
  LET codePoint == codePointAt(t, j) IN
  IF codePoint = 0
    THEN [i |-> j + 1, result |-> result]
  ELSE IF codePoint \notin invisibleSet
    THEN IF codePoint > 65535 /\ j + 1 < Len(t)
           THEN [ i |-> j + 2,
                  result |-> result \o <<CharAt(t, j), CharAt(t, j + 1)>> ]
           ELSE [ i |-> j + 1, result |-> Append(result, CharAt(t, j)) ]
  ELSE [i |-> j + 1, result |-> result]

\* one iteration of the for loop at index j (body, then j++)
StripBody(t, j, result) ==
  LET codePoint == codePointAt(t, j) IN
  IF codePoint = 0
    THEN [i |-> j + 1, result |-> result]                 \* continue
  ELSE IF codePoint \notin invisibleSet
    THEN IF codePoint > 65535 /\ j + 1 < Len(t)
           THEN [ i |-> j + 2,
                  result |-> result \o <<CharAt(t, j), CharAt(t, j + 1)>> ]
           ELSE [ i |-> j + 1, result |-> Append(result, CharAt(t, j)) ]
  ELSE IF codePoint > 65535
    THEN [i |-> j + 2, result |-> result]
    ELSE [i |-> j + 1, result |-> result]

RECURSIVE StripLoop(_, _, _)
StripLoop(t, j, result) ==
  IF j < Len(t)
    THEN LET s == StripBody(t, j, result) IN StripLoop(t, s.i, s.result)
    ELSE result

stripInvisibleCharacters(t) == StripLoop(t, 0, <<>>)

(***************************************************************************)
(* detectAllIssues                                                         *)
(***************************************************************************)
\* the keys of CleaningOptions as the two functions read them
OptionNames ==
  { "invisibleChars", "markdownHeaders", "markdownBold", "repeatingChars",
    "formattingLines", "extraWhitespace", "wordExchanges" }

\* An optional parameter is a record with a field `supplied`: FALSE is the
\* argument left out (undefined). wordExchanges carries the array in `list`,
\* varianceSettings the fields of VarianceSettings.
NoWordExchanges == [supplied |-> FALSE, list |-> <<>>]

NoVarianceSettings ==
  [ supplied |-> FALSE, enabled |-> FALSE, synonymVariation |-> FALSE,
    caseVariation |-> FALSE, pluralVariation |-> FALSE ]

\* mutant: the plural of the bad word is counted as well
CountExchanges_plural(t, exchanges) ==
  LET count[k \in 0..Len(exchanges)] ==
        IF k = 0 THEN 0
        ELSE count[k - 1]
               + MatchCount(t, WordRegExp(escapeRegex(exchanges[k].badWord)))
               + MatchCount(t, WordRegExp(escapeRegex(exchanges[k].badWord \o <<115>>)))
  IN count[Len(exchanges)]

\* the for..of loop that adds up matches.length over the enabled exchanges
CountExchanges(t, exchanges) ==
  LET count[k \in 0..Len(exchanges)] ==
        IF k = 0 THEN 0
        ELSE count[k - 1]
               + MatchCount(t, WordRegExp(escapeRegex(exchanges[k].badWord)))
  IN count[Len(exchanges)]

\* mutant: formatting lines are counted whether or not their flag is set
detectAllIssues_linesUngated(t, o, exchanges) ==
  LET invisibleResult ==
        IF o.invisibleChars THEN detectInvisibleCharacters(t) ELSE EmptyResult
      wordExchangeCount ==
        IF o.wordExchanges /\ exchanges.supplied
          THEN CountExchanges(t, enabledExchanges(exchanges.list))
          ELSE 0
      additionalCleaning ==
        [ markdownHeaders |->
            IF o.markdownHeaders
              THEN MatchCount(t, RegExpOf("MARKDOWN_HEADER_REGEX")) ELSE 0,
          markdownBold |->
            IF o.markdownBold
              THEN MatchCount(t, RegExpOf("MARKDOWN_BOLD_REGEX")) ELSE 0,
          repeatingChars |->
            IF o.repeatingChars
              THEN MatchCount(t, RegExpOf("REPEATING_CHARS_REGEX")) ELSE 0,
          formattingLines |->
            MatchCount(t, RegExpOf("FORMATTING_LINES_REGEX")),
          extraWhitespace |->
            IF o.extraWhitespace
              THEN MatchCount(t, RegExpOf("EXTRA_WHITESPACE_REGEX")) ELSE 0,
          wordExchanges |-> wordExchangeCount ]
  IN [ totalCount |-> invisibleResult.totalCount,
       categories |-> invisibleResult.categories,
       positions  |-> invisibleResult.positions,
       additionalCleaning |-> additionalCleaning ]

detectAllIssues(t, o, exchanges) ==
  LET invisibleResult ==
        IF o.invisibleChars THEN detectInvisibleCharacters(t) ELSE EmptyResult
      wordExchangeCount ==
        IF o.wordExchanges /\ exchanges.supplied
          THEN CountExchanges(t, enabledExchanges(exchanges.list))
          ELSE 0
      additionalCleaning ==
        [ markdownHeaders |->
            IF o.markdownHeaders
              THEN MatchCount(t, RegExpOf("MARKDOWN_HEADER_REGEX")) ELSE 0,
          markdownBold |->
            IF o.markdownBold
              THEN MatchCount(t, RegExpOf("MARKDOWN_BOLD_REGEX")) ELSE 0,
          repeatingChars |->
            IF o.repeatingChars
              THEN MatchCount(t, RegExpOf("REPEATING_CHARS_REGEX")) ELSE 0,
          formattingLines |->
            IF o.formattingLines
              THEN MatchCount(t, RegExpOf("FORMATTING_LINES_REGEX")) ELSE 0,
          extraWhitespace |->
            IF o.extraWhitespace
              THEN MatchCount(t, RegExpOf("EXTRA_WHITESPACE_REGEX")) ELSE 0,
          wordExchanges |-> wordExchangeCount ]
  IN [ totalCount |-> invisibleResult.totalCount,
       categories |-> invisibleResult.categories,
       positions  |-> invisibleResult.positions,
       additionalCleaning |-> additionalCleaning ]

(***************************************************************************)
(* cleanText: its statements, each a function of the local `result`        *)
(***************************************************************************)
\* "Remove invisible characters first"
RemoveInvisible(r, o) ==
  IF o.invisibleChars THEN stripInvisibleCharacters(r) ELSE r

\* "Remove markdown headers"
RemoveHeaders(r, o) ==
  IF o.markdownHeaders THEN Replace(r, RegExpOf("MARKDOWN_HEADER_REGEX"), <<>>)
  ELSE r

\* "Remove markdown bold formatting": replacement '$1$2'
RemoveBold(r, o) ==
  IF o.markdownBold
    THEN Replace(r, RegExpOf("MARKDOWN_BOLD_REGEX"), <<36, 49, 36, 50>>)
  ELSE r

\* "Remove repeating characters (3 or more)": replacement '$1'
RemoveRepeating(r, o) ==
  IF o.repeatingChars
    THEN Replace(r, RegExpOf("REPEATING_CHARS_REGEX"), <<36, 49>>)
  ELSE r

\* "Remove formatting lines"
RemoveFormattingLines(r, o) ==
  IF o.formattingLines
    THEN Replace(r, RegExpOf("FORMATTING_LINES_REGEX"), <<>>)
  ELSE r

\* "Normalize whitespace": replacement ' '
NormalizeWhitespace(r, o) ==
  IF o.extraWhitespace
    THEN Replace(r, RegExpOf("EXTRA_WHITESPACE_REGEX"), <<32>>)
  ELSE r

\* the inner for..of loop: every variation of the bad word replaced in turn
ReplaceVariations(r, badWordVariations, goodWord) ==
  LET step[k \in 0..Len(badWordVariations)] ==
        IF k = 0 THEN r
        ELSE Replace(step[k - 1], WordRegExp(escapeRegex(badWordVariations[k])),
                     goodWord)
  IN step[Len(badWordVariations)]

\* "Apply word exchanges": the outer for..of loop over the enabled exchanges
ApplyWordExchanges(r, o, exchanges, variance) ==
  IF o.wordExchanges /\ exchanges.supplied
    THEN
      LET enabled == enabledExchanges(exchanges.list)
          step[k \in 0..Len(enabled)] ==
            IF k = 0 THEN r
            ELSE IF variance.supplied /\ variance.enabled
              THEN ReplaceVariations(step[k - 1],
                     generateWordVariations(enabled[k].badWord, variance),
                     enabled[k].goodWord)
            ELSE Replace(step[k - 1],
                   WordRegExp(escapeRegex(enabled[k].badWord)),
                   enabled[k].goodWord)
      IN step[Len(enabled)]
  ELSE r

\* "Clean up extra newlines and trim": replacement '\n\n'
CleanUp(r) == trim(Replace(r, RegExpOf("EXCESS_NEWLINES"), <<10, 10>>))

\* mutant: repeating characters are collapsed before bold is unwrapped
NextStatement_repeatingFirst(statement) ==
  CASE statement = "invisibleChars"  -> "markdownHeaders"
    [] statement = "markdownHeaders" -> "repeatingChars"
    [] statement = "repeatingChars"  -> "markdownBold"
    [] statement = "markdownBold"    -> "formattingLines"
    [] statement = "formattingLines" -> "extraWhitespace"
    [] statement = "extraWhitespace" -> "wordExchanges"
    [] statement = "wordExchanges"   -> "cleanUp"
    [] statement = "cleanUp"         -> "cleaned"

\* the statement after each statement of cleanText, in program order
NextStatement(statement) ==
  CASE statement = "invisibleChars"  -> "markdownHeaders"
    [] statement = "markdownHeaders" -> "markdownBold"
    [] statement = "markdownBold"    -> "repeatingChars"
    [] statement = "repeatingChars"  -> "formattingLines"
    [] statement = "formattingLines" -> "extraWhitespace"
    [] statement = "extraWhitespace" -> "wordExchanges"
    [] statement = "wordExchanges"   -> "cleanUp"
    [] statement = "cleanUp"         -> "cleaned"

\* the option that switches on the statement that uses a module-level RegExp
FlagOf(name) ==
  CASE name = "MARKDOWN_HEADER_REGEX"  -> "markdownHeaders"
    [] name = "MARKDOWN_BOLD_REGEX"    -> "markdownBold"
    [] name = "REPEATING_CHARS_REGEX"  -> "repeatingChars"
    [] name = "FORMATTING_LINES_REGEX" -> "formattingLines"
    [] name = "EXTRA_WHITESPACE_REGEX" -> "extraWhitespace"

\* the lastIndex values after a statement that, if its flag is set, scans t
\* with the module-level RegExp of that name
ScannedBy(flag, t, name) ==
  IF flag
    THEN [lastIndex EXCEPT ![name] = GlobalScan(t, RegExpOf(name)).lastIndex]
  ELSE lastIndex

\* nothing returned yet
NoneReturned == [detect |-> <<>>, issues |-> <<>>, clean |-> <<>>]

\* the module has just been loaded: every lastIndex is 0, no call was made
NothingShared ==
  /\ lastIndex = [n \in SharedRegExps |-> 0]
  /\ returned = NoneReturned

\* no detectAllIssues / cleanText call is under way: no arguments bound
NoCleanCall ==
  /\ NothingShared
  /\ variations = <<>>
  /\ regexRes = <<>>
  /\ options = [n \in OptionNames |-> FALSE]
  /\ wordExchanges = NoWordExchanges
  /\ varianceSettings = NoVarianceSettings
  /\ cleanRes = <<>>
  /\ issues = detectAllIssues(<<>>, [n \in OptionNames |-> FALSE], NoWordExchanges)

(***************************************************************************)
(* Inputs of specification Spec: every text of at most MaxLen code units   *)
(* over NUL, "A", "B", U+200B, the high surrogates D83D and DB40 and the   *)
(* low surrogates DC01 and DD00 (D83D DC01 = U+1F401, D83D DD00 = U+1F500, *)
(* DB40 DC01 = U+E0001, a TAG, DB40 DD00 = U+E0100, an IVS).               *)
(***************************************************************************)
Units == {0, 65, 66, 8203, 55357, 56128, 56321, 56576}

Texts == UNION { [1..n -> Units] : n \in 0..MaxLen }

(***************************************************************************)
(* Actions: the calls of the two exported scanners, one loop iteration per *)
(* step.                                                                   *)
(***************************************************************************)
Init ==
  /\ text \in Texts
  /\ pc = "idle"
  /\ i = 0
  /\ det = EmptyResult
  /\ stripArg = <<>>
  /\ stripRes = <<>>
  /\ rets = <<>>
  /\ NoCleanCall
  /\ NoApp

\* detectInvisibleCharacters(text) is entered: result constructed, i = 0
CallDetect ==
  /\ pc = "idle"
  /\ pc' = "detect"
  /\ i' = 0
  /\ det' = EmptyResult
  /\ UNCHANGED <<text, stripArg, stripRes, rets, args, cleanRes, issues, shared, variations,
                 regexRes, app>>

DetectIter ==
  /\ pc = "detect"
  /\ i < Len(text)
  /\ LET s == DetectBody(text, i, det) IN
       /\ i' = s.i
       /\ det' = s.result
  /\ UNCHANGED <<text, pc, stripArg, stripRes, rets, args, cleanRes, issues, shared, variations,
                 regexRes, app>>

DetectReturn ==
  /\ pc = "detect"
  /\ ~(i < Len(text))
  /\ pc' = "detected"
  /\ UNCHANGED <<text, i, det, stripArg, stripRes, rets, args, cleanRes, issues, shared, variations,
                 regexRes, app>>

\* stripInvisibleCharacters is entered, on the input text or on what the
\* previous call returned
CallStrip ==
  /\ pc \in {"idle", "stripped"}
  /\ Len(rets) < StripPasses
  /\ pc' = "strip"
  /\ i' = 0
  /\ stripArg' = IF rets = <<>> THEN text ELSE rets[Len(rets)]
  /\ stripRes' = <<>>
  /\ UNCHANGED <<text, det, rets, args, cleanRes, issues, shared, variations, regexRes, app>>

StripIter ==
  /\ pc = "strip"
  /\ i < Len(stripArg)
  /\ LET s == StripBody(stripArg, i, stripRes) IN
       /\ i' = s.i
       /\ stripRes' = s.result
  /\ UNCHANGED <<text, pc, det, stripArg, rets, args, cleanRes, issues, shared, variations,
                 regexRes, app>>

StripReturn ==
  /\ pc = "strip"
  /\ ~(i < Len(stripArg))
  /\ pc' = "stripped"
  /\ rets' = Append(rets, stripRes)
  /\ UNCHANGED <<text, i, det, stripArg, stripRes, args, cleanRes, issues, shared, variations,
                 regexRes, app>>

Next ==
  \/ CallDetect
  \/ DetectIter
  \/ DetectReturn
  \/ CallStrip
  \/ StripIter
  \/ StripReturn

Spec == Init /\ [][Next]_vars


(***************************************************************************)
(* Inputs of specification SpecClassify: one code point, alone or after    *)
(* "A". The code points are the whole registry, the neighbours of each of  *)
(* its members, and the ends of the code space and of the surrogate block. *)
(***************************************************************************)
\* String.fromCodePoint
fromCodePoint(c) ==
  IF c <= 65535 THEN <<c>>
  ELSE << 55296 + ((c - 65536) \div 1024), 56320 + ((c - 65536) % 1024) >>

ProbeCodePoints ==
  invisibleSet
    \cup { c - 1 : c \in invisibleSet } \cup { c + 1 : c \in invisibleSet }
    \cup {0, 65, 55296, 56319, 56320, 57343, 65535, 65536, 917632, 917759,
          918000, 1114111}

ProbeTexts ==
  { prefix \o fromCodePoint(c) : prefix \in {<<>>, <<65>>}, c \in ProbeCodePoints }

InitClassify ==
  /\ text \in ProbeTexts
  /\ pc = "idle"
  /\ i = 0
  /\ det = EmptyResult
  /\ stripArg = <<>>
  /\ stripRes = <<>>
  /\ rets = <<>>
  /\ NoCleanCall
  /\ NoApp

SpecClassify == InitClassify /\ [][Next]_vars

(***************************************************************************)
(* detectAllIssues and cleanText as calls: detectAllIssues in one step,    *)
(* cleanText one statement per step.                                       *)
(***************************************************************************)
DetectAllIssues ==
  /\ pc = "idle"
  /\ issues' = detectAllIssues(text, options, wordExchanges)
  /\ lastIndex' = [n \in SharedRegExps |-> ScannedBy(options[FlagOf(n)], text, n)[n]]
  /\ pc' = "issues"
  /\ UNCHANGED <<text, i, det, stripArg, stripRes, rets, args, cleanRes, returned, variations,
                 regexRes, app>>

\* cleanText is entered: let result = text
CallClean ==
  /\ pc = "idle"
  /\ cleanRes' = text
  /\ pc' = "invisibleChars"
  /\ UNCHANGED <<text, i, det, stripArg, stripRes, rets, args, issues, shared, variations,
                 regexRes, app>>

\* one action per statement of cleanText: the statement pc names assigns
\* `result` and control moves to the statement after it
CleanInvisibleChars ==
  /\ pc = "invisibleChars"
  /\ cleanRes' = RemoveInvisible(cleanRes, options)
  /\ pc' = NextStatement(pc)
  /\ UNCHANGED <<text, i, det, stripArg, stripRes, rets, args, issues, shared, variations,
                 regexRes, app>>

CleanMarkdownHeaders ==
  /\ pc = "markdownHeaders"
  /\ cleanRes' = RemoveHeaders(cleanRes, options)
  /\ lastIndex' = ScannedBy(options.markdownHeaders, cleanRes, "MARKDOWN_HEADER_REGEX")
  /\ pc' = NextStatement(pc)
  /\ UNCHANGED <<text, i, det, stripArg, stripRes, rets, args, issues, returned, variations,
                 regexRes, app>>

CleanMarkdownBold ==
  /\ pc = "markdownBold"
  /\ cleanRes' = RemoveBold(cleanRes, options)
  /\ lastIndex' = ScannedBy(options.markdownBold, cleanRes, "MARKDOWN_BOLD_REGEX")
  /\ pc' = NextStatement(pc)
  /\ UNCHANGED <<text, i, det, stripArg, stripRes, rets, args, issues, returned, variations,
                 regexRes, app>>

CleanRepeatingChars ==
  /\ pc = "repeatingChars"
  /\ cleanRes' = RemoveRepeating(cleanRes, options)
  /\ lastIndex' = ScannedBy(options.repeatingChars, cleanRes, "REPEATING_CHARS_REGEX")
  /\ pc' = NextStatement(pc)
  /\ UNCHANGED <<text, i, det, stripArg, stripRes, rets, args, issues, returned, variations,
                 regexRes, app>>

CleanFormattingLines ==
  /\ pc = "formattingLines"
  /\ cleanRes' = RemoveFormattingLines(cleanRes, options)
  /\ lastIndex' = ScannedBy(options.formattingLines, cleanRes, "FORMATTING_LINES_REGEX")
  /\ pc' = NextStatement(pc)
  /\ UNCHANGED <<text, i, det, stripArg, stripRes, rets, args, issues, returned, variations,
                 regexRes, app>>

CleanExtraWhitespace ==
  /\ pc = "extraWhitespace"
  /\ cleanRes' = NormalizeWhitespace(cleanRes, options)
  /\ lastIndex' = ScannedBy(options.extraWhitespace, cleanRes, "EXTRA_WHITESPACE_REGEX")
  /\ pc' = NextStatement(pc)
  /\ UNCHANGED <<text, i, det, stripArg, stripRes, rets, args, issues, returned, variations,
                 regexRes, app>>

CleanWordExchanges ==
  /\ pc = "wordExchanges"
  /\ cleanRes' = ApplyWordExchanges(cleanRes, options, wordExchanges, varianceSettings)
  /\ pc' = NextStatement(pc)
  /\ UNCHANGED <<text, i, det, stripArg, stripRes, rets, args, issues, shared, variations,
                 regexRes, app>>

CleanReturn ==
  /\ pc = "cleanUp"
  /\ cleanRes' = CleanUp(cleanRes)
  /\ pc' = NextStatement(pc)
  /\ UNCHANGED <<text, i, det, stripArg, stripRes, rets, args, issues, shared, variations,
                 regexRes, app>>

NextClean ==
  \/ CallClean
  \/ CleanInvisibleChars
  \/ CleanMarkdownHeaders
  \/ CleanMarkdownBold
  \/ CleanRepeatingChars
  \/ CleanFormattingLines
  \/ CleanExtraWhitespace
  \/ CleanWordExchanges
  \/ CleanReturn

NextIssues ==
  \/ CallDetect
  \/ DetectIter
  \/ DetectReturn
  \/ DetectAllIssues

(***************************************************************************)
(* Inputs of specifications SpecClean and SpecIssues. A text is at most    *)
(* MaxTokens tokens; every CleaningOptions value; the exchange list left   *)
(* out or supplied, and with it the variance settings left out or enabled. *)
(***************************************************************************)
\* newline, "#", "**", "a", U+200B
CleanTokens == { <<10>>, <<35>>, <<42, 42>>, <<97>>, <<8203>> }

\* newline, "#", "**", "a", U+200B, U+E0100 (an IVS)
IssueTokens == { <<10>>, <<35>>, <<42, 42>>, <<97>>, <<8203>>, <<56128, 56576>> }

RECURSIVE TokenTexts(_, _)
TokenTexts(tokens, n) ==
  IF n = 0 THEN {<<>>}
  ELSE LET shorter == TokenTexts(tokens, n - 1) IN
       shorter \cup { t \o k : t \in shorter, k \in tokens }

AllOptions == [OptionNames -> BOOLEAN]

\* a row the filter drops (its bad word is blank), a disabled row, and
\* "a" -> " b\n\n\nb " 
ExchangeList ==
  << [id |-> 1, badWord |-> <<32>>, goodWord |-> <<97>>, enabled |-> TRUE],
     [id |-> 2, badWord |-> <<35>>, goodWord |-> <<97>>, enabled |-> FALSE],
     [id |-> 3, badWord |-> <<97>>, goodWord |-> <<32, 98, 10, 10, 10, 98, 32>>,
      enabled |-> TRUE] >>

SuppliedExchanges == [supplied |-> TRUE, list |-> ExchangeList]

\* case and plural variation switched on
VarianceEnabled ==
  [ supplied |-> TRUE, enabled |-> TRUE, synonymVariation |-> FALSE,
    caseVariation |-> TRUE, pluralVariation |-> TRUE ]

CleanCalls ==
  { <<NoWordExchanges, NoVarianceSettings>>,
    <<SuppliedExchanges, NoVarianceSettings>>,
    <<SuppliedExchanges, VarianceEnabled>> }

InitClean ==
  /\ NothingShared
  /\ variations = <<>>
  /\ regexRes = <<>>
  /\ NoApp
  /\ text \in TokenTexts(CleanTokens, MaxTokens)
  /\ options \in AllOptions
  /\ \E call \in CleanCalls :
       wordExchanges = call[1] /\ varianceSettings = call[2]
  /\ pc = "idle"
  /\ i = 0
  /\ det = EmptyResult
  /\ stripArg = <<>>
  /\ stripRes = <<>>
  /\ rets = <<>>
  /\ cleanRes = <<>>
  /\ issues = detectAllIssues(<<>>, [n \in OptionNames |-> FALSE], NoWordExchanges)

SpecClean == InitClean /\ [][NextClean]_vars

InitIssues ==
  /\ NothingShared
  /\ variations = <<>>
  /\ regexRes = <<>>
  /\ NoApp
  /\ text \in TokenTexts(IssueTokens, MaxTokens)
  /\ options \in AllOptions
  /\ wordExchanges \in {NoWordExchanges, SuppliedExchanges}
  /\ varianceSettings = NoVarianceSettings
  /\ pc = "idle"
  /\ i = 0
  /\ det = EmptyResult
  /\ stripArg = <<>>
  /\ stripRes = <<>>
  /\ rets = <<>>
  /\ cleanRes = <<>>
  /\ issues = detectAllIssues(<<>>, [n \in OptionNames |-> FALSE], NoWordExchanges)

SpecIssues == InitIssues /\ [][NextIssues]_vars

(***************************************************************************)
(* Inputs of specification SpecExchange: the word exchanges. A text is at  *)
(* most MaxTokens tokens of "a", "A", "as", "b", " " and "."; the only     *)
(* option that is ever on is wordExchanges; the exchange list is left out  *)
(* or one of ExchangeLists; the variance settings are left out, enabled    *)
(* with case and plural variation, or enabled with case variation alone.   *)
(***************************************************************************)
ExchangeTokens == { <<97>>, <<65>>, <<97, 115>>, <<98>>, <<32>>, <<46>> }

\* a row of the exchange list with the given words, enabled
Exchange(badWord, goodWord) ==
  [id |-> 1, badWord |-> badWord, goodWord |-> goodWord, enabled |-> TRUE]

ExchangeLists ==
  { \* a -> b, then b -> c; and the same rows the other way round
    << Exchange(<<97>>, <<98>>), Exchange(<<98>>, <<99>>) >>,
    << Exchange(<<98>>, <<99>>), Exchange(<<97>>, <<98>>) >>,
    \* a -> "b a": the good word holds the bad word
    << Exchange(<<97>>, <<98, 32, 97>>) >>,
    \* a -> "$&"
    << Exchange(<<97>>, <<36, 38>>) >>,
    \* "a.b" -> c
    << Exchange(<<97, 46, 98>>, <<99>>) >>,
    \* a disabled row, a row with a blank bad word, a row with a blank good
    \* word, and a -> b
    << [Exchange(<<97>>, <<99>>) EXCEPT !.enabled = FALSE],
       Exchange(<<32>>, <<99>>),
       Exchange(<<98>>, <<32>>),
       Exchange(<<97>>, <<98>>) >> }

\* case variation alone
VarianceCaseOnly ==
  [ supplied |-> TRUE, enabled |-> TRUE, synonymVariation |-> FALSE,
    caseVariation |-> TRUE, pluralVariation |-> FALSE ]

ExchangeOptions ==
  { [n \in OptionNames |-> FALSE],
    [n \in OptionNames |-> n = "wordExchanges"] }

InitExchange ==
  /\ NothingShared
  /\ variations = <<>>
  /\ regexRes = <<>>
  /\ NoApp
  /\ text \in TokenTexts(ExchangeTokens, MaxTokens)
  /\ options \in ExchangeOptions
  /\ wordExchanges \in
       {NoWordExchanges} \cup { [supplied |-> TRUE, list |-> l] : l \in ExchangeLists }
  /\ varianceSettings \in {NoVarianceSettings, VarianceEnabled, VarianceCaseOnly}
  /\ pc = "idle"
  /\ i = 0
  /\ det = EmptyResult
  /\ stripArg = <<>>
  /\ stripRes = <<>>
  /\ rets = <<>>
  /\ cleanRes = <<>>
  /\ issues = detectAllIssues(<<>>, [n \in OptionNames |-> FALSE], NoWordExchanges)

NextExchange ==
  \/ DetectAllIssues
  \/ CallClean
  \/ CleanInvisibleChars
  \/ CleanMarkdownHeaders
  \/ CleanMarkdownBold
  \/ CleanRepeatingChars
  \/ CleanFormattingLines
  \/ CleanExtraWhitespace
  \/ CleanWordExchanges
  \/ CleanReturn

SpecExchange == InitExchange /\ [][NextExchange]_vars

(***************************************************************************)
(* Specification SpecSession: a caller that makes call after call, in any  *)
(* order, of detectInvisibleCharacters, stripInvisibleCharacters,          *)
(* detectAllIssues and cleanText on one text and one set of arguments, and *)
(* keeps what each function returned the first time. The functions are     *)
(* synchronous, so a call runs to its return before the next one starts.   *)
(***************************************************************************)
SessionOptions ==
  { [n \in OptionNames |-> TRUE],
    [n \in OptionNames |-> FALSE],
    [n \in OptionNames |-> n \in {"repeatingChars", "formattingLines"}],
    [n \in OptionNames |->
       n \in {"markdownHeaders", "markdownBold", "extraWhitespace"}] }

InitSession ==
  /\ NothingShared
  /\ variations = <<>>
  /\ regexRes = <<>>
  /\ NoApp
  /\ text \in TokenTexts(CleanTokens, MaxTokens)
  /\ options \in SessionOptions
  /\ wordExchanges = SuppliedExchanges
  /\ varianceSettings = NoVarianceSettings
  /\ pc = "idle"
  /\ i = 0
  /\ det = EmptyResult
  /\ stripArg = <<>>
  /\ stripRes = <<>>
  /\ rets = <<>>
  /\ cleanRes = <<>>
  /\ issues = detectAllIssues(<<>>, [n \in OptionNames |-> FALSE], NoWordExchanges)

\* what the call that has just returned gave back, as a one-element record
\* update of the caller's notes: the first value of each function is kept
Noted(function, value) ==
  IF returned[function] = <<>>
    THEN [returned EXCEPT ![function] = <<value>>]
  ELSE returned

\* the call has returned; the caller notes the value and is ready to call
\* again
Again ==
  /\ pc \in {"detected", "stripped", "issues", "cleaned"}
  /\ returned' = CASE pc = "detected" -> Noted("detect", det)
                   [] pc = "issues"   -> Noted("issues", issues)
                   [] pc = "cleaned"  -> Noted("clean", cleanRes)
                   [] pc = "stripped" -> returned
  /\ pc' = "idle"
  /\ UNCHANGED <<text, i, det, stripArg, stripRes, rets, args, cleanRes, issues,
                 lastIndex, variations, regexRes, app>>

NextSession ==
  \/ CallDetect
  \/ DetectIter
  \/ DetectReturn
  \/ CallStrip
  \/ StripIter
  \/ StripReturn
  \/ DetectAllIssues
  \/ CallClean
  \/ CleanInvisibleChars
  \/ CleanMarkdownHeaders
  \/ CleanMarkdownBold
  \/ CleanRepeatingChars
  \/ CleanFormattingLines
  \/ CleanExtraWhitespace
  \/ CleanWordExchanges
  \/ CleanReturn
  \/ Again

SpecSession == InitSession /\ [][NextSession]_vars

(***************************************************************************)
(* Specification SpecVariations: generateWordVariations called on a word   *)
(* of at most MaxWord units over "a", "A", "b", "s", "S" and "y", with     *)
(* every value of the four flags of VarianceSettings.                      *)
(***************************************************************************)
MaxWord == 3

WordUnits == {97, 65, 98, 115, 83, 121}

Words == UNION { [1..n -> WordUnits] : n \in 0..MaxWord }

AllVarianceSettings ==
  [ supplied : {TRUE}, enabled : BOOLEAN, synonymVariation : BOOLEAN,
    caseVariation : BOOLEAN, pluralVariation : BOOLEAN ]

InitVariations ==
  /\ NothingShared
  /\ variations = <<>>
  /\ regexRes = <<>>
  /\ NoApp
  /\ text = <<>>
  /\ options = [n \in OptionNames |-> n = "wordExchanges"]
  /\ \E w \in Words :
       wordExchanges = [supplied |-> TRUE, list |-> << Exchange(w, <<98>>) >>]
  /\ varianceSettings \in AllVarianceSettings
  /\ pc = "idle"
  /\ i = 0
  /\ det = EmptyResult
  /\ stripArg = <<>>
  /\ stripRes = <<>>
  /\ rets = <<>>
  /\ cleanRes = <<>>
  /\ issues = detectAllIssues(<<>>, [n \in OptionNames |-> FALSE], NoWordExchanges)

\* generateWordVariations(exchange.badWord, varianceSettings) is called and
\* returns
CallVariations ==
  /\ pc = "idle"
  /\ wordExchanges.supplied
  /\ wordExchanges.list # <<>>
  /\ varianceSettings.supplied
  /\ variations' = generateWordVariations(wordExchanges.list[1].badWord, varianceSettings)
  /\ pc' = "variations"
  /\ UNCHANGED <<text, i, det, stripArg, stripRes, rets, args, cleanRes, issues, shared,
                 regexRes, app>>

NextVariations == CallVariations

SpecVariations == InitVariations /\ [][NextVariations]_vars

(***************************************************************************)
(* Specification SpecHeaders: cleanText on texts of at most MaxTokens      *)
(* tokens of "#", "######", " ", newline, "a" and " a", with markdown      *)
(* headers the only option that is ever on.                                *)
(***************************************************************************)
HeaderTokens ==
  { <<35>>, <<35, 35, 35, 35, 35, 35>>, <<32>>, <<10>>, <<97>>, <<32, 97>> }

HeaderOptions ==
  { [n \in OptionNames |-> FALSE],
    [n \in OptionNames |-> n = "markdownHeaders"] }

InitHeaders ==
  /\ NothingShared
  /\ variations = <<>>
  /\ regexRes = <<>>
  /\ NoApp
  /\ text \in TokenTexts(HeaderTokens, MaxTokens)
  /\ options \in HeaderOptions
  /\ wordExchanges = NoWordExchanges
  /\ varianceSettings = NoVarianceSettings
  /\ pc = "idle"
  /\ i = 0
  /\ det = EmptyResult
  /\ stripArg = <<>>
  /\ stripRes = <<>>
  /\ rets = <<>>
  /\ cleanRes = <<>>
  /\ issues = detectAllIssues(<<>>, [n \in OptionNames |-> FALSE], NoWordExchanges)

NextHeaders ==
  \/ DetectAllIssues
  \/ CallClean
  \/ CleanInvisibleChars
  \/ CleanMarkdownHeaders
  \/ CleanMarkdownBold
  \/ CleanRepeatingChars
  \/ CleanFormattingLines
  \/ CleanExtraWhitespace
  \/ CleanWordExchanges
  \/ CleanReturn

SpecHeaders == InitHeaders /\ [][NextHeaders]_vars

(***************************************************************************)
(* Specification SpecRegex: the alternative implementation. The caller     *)
(* strips a text with stripInvisibleCharacters and then removes the        *)
(* matches of INVISIBLE_REGEX from the same text. The texts are those of   *)
(* Spec and the single code point probes of SpecClassify.                  *)
(***************************************************************************)
InitRegex ==
  /\ text \in Texts \cup ProbeTexts
  /\ pc = "idle"
  /\ i = 0
  /\ det = EmptyResult
  /\ stripArg = <<>>
  /\ stripRes = <<>>
  /\ rets = <<>>
  /\ NoCleanCall
  /\ NoApp

\* text.replace(INVISIBLE_REGEX, '')
ReplaceInvisible ==
  /\ pc = "stripped"
  /\ regexRes' = Replace(text, RegExpOf("INVISIBLE_REGEX"), <<>>)
  /\ pc' = "replaced"
  /\ UNCHANGED <<text, i, det, stripArg, stripRes, rets, args, cleanRes, issues,
                 variations, shared, app>>

NextRegex ==
  \/ CallStrip
  \/ StripIter
  \/ StripReturn
  \/ ReplaceInvisible

SpecRegex == InitRegex /\ [][NextRegex]_vars

(***************************************************************************)
(* The subscription provider: SUBSCRIPTION_PLANS, createTrialSubscription, *)
(* and the values the provider computes at each render. Time is counted in *)
(* days. A subscription object is [planId, status, trialEnd,               *)
(* currentPeriodEnd, usage], `usage` a reference into `usages`.            *)
(***************************************************************************)
\* longest the model lets the days run
MaxDay == 2

\* highest dailyProcessingCount the model lets an unlimited plan reach
MaxCount == 11

\* limits.dailyProcessing: -1 is "unlimited"
Unlimited == -1

\* limits.dailyProcessing of each plan, by id
SUBSCRIPTION_PLANS ==
  [ free                 |-> 10,
    professional_monthly |-> Unlimited,
    professional_yearly  |-> Unlimited,
    enterprise_monthly   |-> Unlimited,
    enterprise_yearly    |-> Unlimited ]

\* SUBSCRIPTION_PLANS.find(p => p.id === planId): <<>> when there is none
FindPlan(planId) ==
  IF planId \in DOMAIN SUBSCRIPTION_PLANS THEN <<SUBSCRIPTION_PLANS[planId]>> ELSE <<>>

\* 7 * 24 * 60 * 60 * 1000 ms
TrialDays == 7

\* the usage object createTrialSubscription builds on day d
TrialUsage(d) == [dailyProcessingCount |-> 0, lastResetDate |-> d]

\* createTrialSubscription() on day d, its usage object at reference u
createTrialSubscription(d, u) ==
  [ planId |-> "professional_monthly", status |-> "trial",
    trialEnd |-> d + TrialDays, currentPeriodEnd |-> d + TrialDays, usage |-> u ]

\* JSON.stringify(s), the usage objects being h
Stringify(s, h) ==
  [ kind |-> "subscription",
    value |-> [ planId |-> s.planId, status |-> s.status, trialEnd |-> s.trialEnd,
                currentPeriodEnd |-> s.currentPeriodEnd,
                dailyProcessingCount |-> h[s.usage].dailyProcessingCount,
                lastResetDate |-> h[s.usage].lastResetDate ] ]

\* JSON.parse and the date conversions: the object, its usage object at u
ParsedSubscription(json, u) ==
  [ planId |-> json.planId, status |-> json.status, trialEnd |-> json.trialEnd,
    currentPeriodEnd |-> json.currentPeriodEnd, usage |-> u ]

\* the usage object JSON.parse builds
ParsedUsage(json) ==
  [ dailyProcessingCount |-> json.dailyProcessingCount,
    lastResetDate |-> json.lastResetDate ]

\* useMemo currentPlan: <<>> for null, else the plan's dailyProcessing limit
currentPlan(s) == IF s = <<>> THEN <<>> ELSE FindPlan(s[1].planId)

\* useMemo hasActiveSubscription, `now` being day d
hasActiveSubscription(s, d) ==
  /\ s # <<>>
  /\ \/ s[1].status = "active"
     \/ s[1].status = "trial" /\ s[1].trialEnd # NoDate /\ s[1].trialEnd > d
  /\ s[1].currentPeriodEnd > d

\* canUseFeature('dailyProcessing')
canUseFeature(s, d) ==
  IF currentPlan(s) = <<>> \/ ~hasActiveSubscription(s, d)
    THEN SUBSCRIPTION_PLANS["free"]
    ELSE currentPlan(s)[1]

\* Math.max(0, n)
Max0(n) == IF n < 0 THEN 0 ELSE n

\* getRemainingUsage() on day d, the usage objects being h
getRemainingUsage(s, h, d) ==
  IF s = <<>> \/ currentPlan(s) = <<>> THEN 0
  ELSE IF currentPlan(s)[1] = Unlimited THEN -1
  ELSE Max0(currentPlan(s)[1]
              - (IF h[s[1].usage].lastResetDate = d
                   THEN h[s[1].usage].dailyProcessingCount ELSE 0))

(***************************************************************************)
(* incrementUsage. `{ ...subscription }` copies the top level only: the    *)
(* copy's `usage` is the object the state holds, so the day reset and the  *)
(* ++ write into `usages` at the captured subscription's reference.        *)
(***************************************************************************)
\* "Reset daily count if it's a new day"
ResetIfNewDay(h, u, d) ==
  IF h[u].lastResetDate # d
    THEN [h EXCEPT ![u] = [dailyProcessingCount |-> 0, lastResetDate |-> d]]
    ELSE h

\* mutant: the limit test lets the count pass the limit by one
LimitReached_late(count, limit) == limit # Unlimited /\ count > limit

\* "Check if user has reached daily limit"
LimitReached(count, limit) == limit # Unlimited /\ count >= limit

\* updatedSubscription.usage.dailyProcessingCount++
Incremented(h, u) ==
  [h EXCEPT ![u].dailyProcessingCount = h[u].dailyProcessingCount + 1]

\* what the call returns when the callback captured s, on day d
IncrementUsageReturns(s, h, d) ==
  /\ s # <<>>
  /\ FindPlan(s[1].planId) # <<>>
  /\ ~LimitReached(ResetIfNewDay(h, s[1].usage, d)[s[1].usage].dailyProcessingCount,
                   FindPlan(s[1].planId)[1])

\* the call on the provider; `written`: storage.setItem succeeded
incrementUsage(written) ==
  /\ IF closure = <<>>
       THEN UNCHANGED <<subscription, usages, stored>>
       ELSE IF ~IncrementUsageReturns(closure, usages, today)
         THEN /\ usages' = ResetIfNewDay(usages, closure[1].usage, today)
              /\ UNCHANGED <<subscription, stored>>
         ELSE /\ ResetIfNewDay(usages, closure[1].usage, today)[closure[1].usage]
                   .dailyProcessingCount < MaxCount
              /\ usages' = Incremented(ResetIfNewDay(usages, closure[1].usage, today),
                                       closure[1].usage)
              /\ subscription' = closure
              /\ stored' = IF written THEN Stringify(closure[1], usages') ELSE stored
  /\ usageRet' = <<IncrementUsageReturns(closure, usages, today)>>
  /\ UNCHANGED <<closure, serverData, today, isLoading, loadPc, storedSubscription>>

IncrementUsage ==
  /\ \E written \in BOOLEAN : incrementUsage(written)
  /\ UNCHANGED <<engine, screen>>

\* the provider renders: its callbacks capture the state
Render ==
  /\ closure # subscription
  /\ closure' = subscription
  /\ UNCHANGED <<subscription, usages, stored, serverData, today, isLoading, loadPc,
                 storedSubscription, usageRet, engine, screen>>

\* midnight passes
NextDay ==
  /\ today < MaxDay
  /\ today' = today + 1
  /\ UNCHANGED <<subscription, closure, usages, stored, serverData, isLoading, loadPc,
                 storedSubscription, usageRet, engine, screen>>

(***************************************************************************)
(* Specification SpecUsage: a provider that has loaded its subscription    *)
(* and has or has not rendered since, then incrementUsage calls, the       *)
(* render and midnights in any order. The subscription is one the storage  *)
(* or the server can hand over: a plan id, or an id no plan has, any       *)
(* status, period and trial ends before and after the days of the run, a   *)
(* count from 0 to the free limit, last reset today or the day before.     *)
(***************************************************************************)
UsagePlanIds == {"free", "professional_monthly", "enterprise_yearly", "legacy"}

UsageStatuses == {"active", "trial", "expired"}

UsageCounts == {0, 1, 9, 10}

\* the engine at rest with no call made
EngineIdle ==
  /\ text = <<>>
  /\ pc = "idle"
  /\ i = 0
  /\ det = EmptyResult
  /\ stripArg = <<>>
  /\ stripRes = <<>>
  /\ rets = <<>>
  /\ NoCleanCall

\* the screen as constructed
NoScreen ==
  /\ inputText = FALSE
  /\ cleanedText = FALSE
  /\ published = 0
  /\ timers = <<>>

InitUsage ==
  /\ EngineIdle
  /\ NoScreen
  /\ today = 0
  /\ \E planId \in UsagePlanIds, status \in UsageStatuses,
        trialEnd \in {NoDate, 0, MaxDay + 1}, currentPeriodEnd \in {0, MaxDay + 1},
        count \in UsageCounts, lastResetDate \in {-1, 0} :
       /\ subscription =
            << [ planId |-> planId, status |-> status, trialEnd |-> trialEnd,
                 currentPeriodEnd |-> currentPeriodEnd, usage |-> 1 ] >>
       /\ usages = << [dailyProcessingCount |-> count, lastResetDate |-> lastResetDate] >>
  /\ closure \in {<<>>, subscription}
  /\ stored = Stringify(subscription[1], usages)
  /\ serverData = <<>>
  /\ isLoading = FALSE
  /\ loadPc = "done"
  /\ storedSubscription = stored
  /\ usageRet = <<>>

NextUsage ==
  \/ IncrementUsage
  \/ Render
  \/ NextDay

SpecUsage == InitUsage /\ [][NextUsage]_vars

(***************************************************************************)
(* loadSubscriptionData, one await per step. storage.getItem answers null  *)
(* when the read fails; JSON.parse, or the date conversion on what it      *)
(* parsed, throws on a malformed item; subscriptionQuery.refetch() settles *)
(* either way, and subscriptionQuery.data is the value the callback        *)
(* captured.                                                               *)
(***************************************************************************)
\* mutant: setSubscription leaves the state null
SetSubscription_null(s) == <<>>

\* setSubscription(s): the state it leaves
SetSubscription(s) == <<s>>

\* an item JSON.parse cannot take, or takes as null
Malformed == [kind |-> "malformed", value |-> NoJSON]

\* setIsLoading(true); await storage.getItem(STORAGE_KEYS.SUBSCRIPTION)
LoadStart ==
  /\ loadPc = "idle"
  /\ isLoading' = TRUE
  /\ \E readFailed \in BOOLEAN :
       storedSubscription' = IF readFailed THEN NothingStored ELSE stored
  /\ loadPc' = "read"
  /\ UNCHANGED <<subscription, closure, usages, stored, serverData, today, usageRet,
                 engine, screen>>

\* if (storedSubscription) { parsed = JSON.parse(...); ...; setSubscription(parsed) }
LoadStored ==
  /\ loadPc = "read"
  /\ storedSubscription.kind = "subscription"
  /\ usages' = Append(usages, ParsedUsage(storedSubscription.value))
  /\ subscription' =
       SetSubscription(ParsedSubscription(storedSubscription.value, Len(usages) + 1))
  /\ loadPc' = "sync"
  /\ UNCHANGED <<closure, stored, serverData, today, isLoading, storedSubscription,
                 usageRet, engine, screen>>

\* JSON.parse(storedSubscription) throws
LoadThrows ==
  /\ loadPc = "read"
  /\ storedSubscription.kind = "malformed"
  /\ loadPc' = "catch"
  /\ UNCHANGED <<subscription, closure, usages, stored, serverData, today, isLoading,
                 storedSubscription, usageRet, engine, screen>>

\* else { createTrialSubscription(); setSubscription; await storage.setItem }
LoadTrial ==
  /\ loadPc = "read"
  /\ storedSubscription.kind = "none"
  /\ usages' = Append(usages, TrialUsage(today))
  /\ subscription' = SetSubscription(createTrialSubscription(today, Len(usages) + 1))
  /\ \E written \in BOOLEAN :
       stored' = IF written
                   THEN Stringify(createTrialSubscription(today, Len(usages) + 1), usages')
                   ELSE stored
  /\ loadPc' = "sync"
  /\ UNCHANGED <<closure, serverData, today, isLoading, storedSubscription, usageRet,
                 engine, screen>>

\* "Sync with server in background": the inner try / catch
LoadSync ==
  /\ loadPc = "sync"
  /\ \E failed \in BOOLEAN, written \in BOOLEAN :
       IF ~failed /\ serverData # <<>>
         THEN /\ subscription' = SetSubscription(serverData[1])
              /\ stored' = IF written THEN Stringify(serverData[1], usages) ELSE stored
         ELSE UNCHANGED <<subscription, stored>>
  /\ loadPc' = "finally"
  /\ UNCHANGED <<closure, usages, serverData, today, isLoading, storedSubscription,
                 usageRet, engine, screen>>

\* catch (error) { "Fallback to trial" }
LoadCatch ==
  /\ loadPc = "catch"
  /\ usages' = Append(usages, TrialUsage(today))
  /\ subscription' = SetSubscription(createTrialSubscription(today, Len(usages) + 1))
  /\ loadPc' = "finally"
  /\ UNCHANGED <<closure, stored, serverData, today, isLoading, storedSubscription,
                 usageRet, engine, screen>>

\* finally { setIsLoading(false) }
LoadFinally ==
  /\ loadPc = "finally"
  /\ isLoading' = FALSE
  /\ loadPc' = "done"
  /\ UNCHANGED <<subscription, closure, usages, stored, serverData, today,
                 storedSubscription, usageRet, engine, screen>>

(***************************************************************************)
(* Specification SpecLoad: the provider mounts on some day and its effect  *)
(* calls loadSubscriptionData once. The storage holds nothing, a malformed *)
(* item, or a subscription of SpecUsage's kinds; the query holds no data   *)
(* or a subscription from the server. SpecLoadFair adds that the call is   *)
(* resumed whenever the promise it awaits has settled.                     *)
(***************************************************************************)
\* the subscriptions the storage can hold
StoredSubscriptions ==
  { [ kind |-> "subscription",
      value |-> [ planId |-> planId, status |-> status, trialEnd |-> trialEnd,
                  currentPeriodEnd |-> currentPeriodEnd,
                  dailyProcessingCount |-> count, lastResetDate |-> lastResetDate ] ] :
      planId \in UsagePlanIds, status \in UsageStatuses,
      trialEnd \in {NoDate, MaxDay + 1}, currentPeriodEnd \in {0, MaxDay + 1},
      count \in {0, 10}, lastResetDate \in {-1, 0} }

\* what the server answered with: an active subscription to the free plan
ServerSubscription ==
  [ planId |-> "free", status |-> "active", trialEnd |-> NoDate,
    currentPeriodEnd |-> MaxDay + 1, usage |-> 1 ]

InitLoad ==
  /\ EngineIdle
  /\ NoScreen
  /\ subscription = <<>>
  /\ closure = <<>>
  /\ stored \in {NothingStored, Malformed} \cup StoredSubscriptions
  /\ \E synced \in BOOLEAN :
       /\ serverData = IF synced THEN <<ServerSubscription>> ELSE <<>>
       /\ usages = IF synced THEN <<TrialUsage(0)>> ELSE <<>>
  /\ today \in 0..MaxDay
  /\ isLoading = TRUE
  /\ loadPc = "idle"
  /\ storedSubscription = NothingStored
  /\ usageRet = <<>>

NextLoad ==
  \/ LoadStart
  \/ LoadStored
  \/ LoadThrows
  \/ LoadTrial
  \/ LoadSync
  \/ LoadCatch
  \/ LoadFinally
  \/ Render

SpecLoad == InitLoad /\ [][NextLoad]_vars

SpecLoadFair == SpecLoad /\ WF_vars(NextLoad)

(***************************************************************************)
(* The main screen. The texts are the engine's business; of the screen     *)
(* the model keeps whether inputText and cleanedText are empty, how many   *)
(* cleaned texts were handed to setCleanedText, and the callbacks that     *)
(* wait in setTimeout(..., 0), oldest first, each by the handler that      *)
(* queued it.                                                              *)
(***************************************************************************)
\* most callbacks the model lets wait at once
MaxTimers == 2

\* most cleaned texts the model lets the screen publish
MaxPublished == 3

\* handleInputChange(text), its processText(text) run to the end; handlePaste
\* and handleScanComplete pass a non-empty text to it
HandleInputChange ==
  \E nonEmpty \in BOOLEAN, written \in BOOLEAN :
    /\ inputText' = nonEmpty
    /\ IF ~nonEmpty
         THEN /\ cleanedText' = FALSE
              /\ UNCHANGED <<published, provider>>
         ELSE /\ published < MaxPublished
              /\ incrementUsage(written)
              /\ IF usageRet' = <<TRUE>>
                   THEN cleanedText' = TRUE /\ published' = published + 1
                   ELSE UNCHANGED <<cleanedText, published>>
    /\ UNCHANGED <<timers, engine>>

\* handleClear
HandleClear ==
  /\ inputText' = FALSE
  /\ cleanedText' = FALSE
  /\ UNCHANGED <<published, timers, provider, engine>>

\* setTimeout(() => {...}, 0) by a handler: its callback joins the queue
Reprocess(handler) ==
  /\ Len(timers) < MaxTimers
  /\ timers' = Append(timers, handler)
  /\ UNCHANGED <<inputText, cleanedText, published, provider, engine>>

\* toggleOption: "Re-process text with new options if we have input"
ToggleOption ==
  /\ inputText
  /\ Reprocess("toggleOption")

\* updateWordExchange: "Re-process text if we have input"
UpdateWordExchange ==
  /\ inputText
  /\ Reprocess("updateWordExchange")

\* toggleVarianceSetting: "Re-process text if we have input"
ToggleVarianceSetting ==
  /\ inputText
  /\ Reprocess("toggleVarianceSetting")

\* resetWordExchanges: "Re-process text if we have input"
ResetWordExchanges ==
  /\ inputText
  /\ Reprocess("resetWordExchanges")

\* the oldest callback runs: detectAllIssues, cleanText, setDetectionResult,
\* setCleanedText
TimerFires ==
  /\ timers # <<>>
  /\ published < MaxPublished
  /\ timers' = Tail(timers)
  /\ cleanedText' = TRUE
  /\ published' = published + 1
  /\ UNCHANGED <<inputText, provider, engine>>

(***************************************************************************)
(* Specification SpecScreen: the screen over a loaded provider, on the     *)
(* free plan or a running professional trial, the day's count at 0, one    *)
(* short of the free limit, or at it; then the user's actions, the waiting *)
(* callbacks and midnights in any order.                                   *)
(***************************************************************************)
InitScreen ==
  /\ EngineIdle
  /\ inputText = FALSE
  /\ cleanedText = FALSE
  /\ published = 0
  /\ timers = <<>>
  /\ today = 0
  /\ \E planId \in {"free", "professional_monthly"}, status \in {"active", "trial"},
        count \in {0, 9, 10} :
       /\ subscription =
            << [ planId |-> planId, status |-> status, trialEnd |-> MaxDay + 1,
                 currentPeriodEnd |-> MaxDay + 1, usage |-> 1 ] >>
       /\ usages = << [dailyProcessingCount |-> count, lastResetDate |-> 0] >>
  /\ closure = subscription
  /\ stored = Stringify(subscription[1], usages)
  /\ serverData = <<>>
  /\ isLoading = FALSE
  /\ loadPc = "done"
  /\ storedSubscription = stored
  /\ usageRet = <<>>

NextScreen ==
  \/ HandleInputChange
  \/ HandleClear
  \/ ToggleOption
  \/ UpdateWordExchange
  \/ ToggleVarianceSetting
  \/ ResetWordExchanges
  \/ TimerFires
  \/ NextDay

SpecScreen == InitScreen /\ [][NextScreen]_vars

(***************************************************************************)
(* Vocabulary of the properties                                            *)
(***************************************************************************)
IsSurrogate(u) == IsHighSurrogate(u) \/ IsLowSurrogate(u)

\* units j and j + 1 of t are a high surrogate and a low surrogate
PairAt(t, j) ==
  /\ j >= 0 /\ j + 1 < Len(t)
  /\ IsHighSurrogate(CharAt(t, j)) /\ IsLowSurrogate(CharAt(t, j + 1))

\* unit j of t is a surrogate half with no partner
UnpairedAt(t, j) ==
  /\ j >= 0 /\ j < Len(t)
  /\ IsSurrogate(CharAt(t, j))
  /\ ~PairAt(t, j)
  /\ ~PairAt(t, j - 1)

\* every surrogate half of t is part of a pair
WellFormed(t) == \A j \in 0..(Len(t) - 1) : ~UnpairedAt(t, j)

\* no code point of t, at whatever index it is read, is in the registry
RegistryFree(t) ==
  \A j \in 0..(Len(t) - 1) : codePointAt(t, j) \notin invisibleSet

SumCategories(c) ==
  c.ZERO_WIDTH + c.BIDI_CONTROLS + c.MATH_OPERATORS + c.HYPHENATION
    + c.VARIATION_SELECTORS + c.FORMAT_CONTROLS + c.SHORTHAND
    + c.TAG_CHARACTERS + c.IVS_CHARACTERS

\* the members of explicit list c
Members(c) ==
  { INVISIBLE_CHARACTERS[c][k] : k \in 1..Len(INVISIBLE_CHARACTERS[c]) }

\* the categories a code point belongs to
CategoriesOf(c) ==
  { n \in DOMAIN INVISIBLE_CHARACTERS : c \in Members(n) }
    \cup (IF c \in TAG_START..TAG_END THEN {"TAG_CHARACTERS"} ELSE {})
    \cup (IF c \in IVS_START..IVS_END THEN {"IVS_CHARACTERS"} ELSE {})

\* a DetectIter step / a StripIter step
IsDetectIter == pc = "detect" /\ i < Len(text)
IsStripIter == pc = "strip" /\ i < Len(stripArg)

(***************************************************************************)
(* C1. stripInvisibleCharacters is idempotent on every sequence of code    *)
(* units: the second of two successive calls returns what the first        *)
(* returned.                                                               *)
(***************************************************************************)
C1_StripIdempotent ==
  Len(rets) >= 2 => rets[2] = rets[1]

(***************************************************************************)
(* C4. A text with no registry code point: detection finds nothing         *)
(* (totalCount 0, no positions) and stripInvisibleCharacters returns the   *)
(* text unchanged.                                                         *)
(***************************************************************************)
C4_RegistryFreeIsNoOp ==
  RegistryFree(text) =>
    /\ (pc = "detected" => det.totalCount = 0 /\ det.positions = <<>>)
    /\ (Len(rets) >= 1 => rets[1] = text)

(***************************************************************************)
(* C2. totalCount is the sum of the nine category counters: at every point *)
(* of detectInvisibleCharacters, in what it returns, and in what           *)
(* detectAllIssues returns, for every text and every CleaningOptions       *)
(* value.                                                                  *)
(***************************************************************************)
C2_TotalIsSumOfCategories ==
  /\ det.totalCount = SumCategories(det.categories)
  /\ issues.totalCount = SumCategories(issues.categories)
  /\ (pc = "issues" /\ ~options.invisibleChars) => issues.totalCount = 0

\* detectAllIssues has counted a zero-width character and an IVS
C2_Witness ==
  /\ pc = "issues"
  /\ options.invisibleChars
  /\ issues.totalCount >= 2
  /\ issues.categories.ZERO_WIDTH >= 1
  /\ issues.categories.IVS_CHARACTERS >= 1

(***************************************************************************)
(* C3. positions is strictly increasing, has totalCount entries, and each  *)
(* entry is the 0-based code-unit index of the text where a registry code  *)
(* point starts; "A" U+200B "B" gives positions [1] and ZERO_WIDTH 1.      *)
(***************************************************************************)
C3_Positions ==
  LET p == det.positions IN
  /\ Len(p) = det.totalCount
  /\ \A k \in 1..Len(p) :
       /\ p[k] \in 0..(Len(text) - 1)
       /\ codePointAt(text, p[k]) \in invisibleSet
       /\ ~PairAt(text, p[k] - 1)
  /\ \A k \in 1..(Len(p) - 1) : p[k] < p[k + 1]
  /\ (pc = "detected" /\ text = <<65, 8203, 66>>) =>
       (p = <<1>> /\ det.categories.ZERO_WIDTH = 1)

C3_Witness ==
  /\ pc = "detected"
  /\ text = <<65, 8203, 66>>
  /\ det.positions = <<1>>

(***************************************************************************)
(* C5. A surrogate pair is one unit: a detect iteration on it advances by  *)
(* 2, counts it at most once and records only the index of its high half;  *)
(* a strip iteration on it advances by 2 and copies both halves or         *)
(* neither; the output of strip on well-formed text is well-formed.        *)
(***************************************************************************)
C5_PairStep ==
  /\ (IsDetectIter /\ PairAt(text, i)) =>
       /\ i' = i + 2
       /\ \/ det' = det
          \/ /\ det'.totalCount = det.totalCount + 1
             /\ det'.positions = Append(det.positions, i)
  /\ (IsStripIter /\ PairAt(stripArg, i)) =>
       /\ i' = i + 2
       /\ \/ stripRes' = stripRes
          \/ stripRes' = stripRes \o <<CharAt(stripArg, i), CharAt(stripArg, i + 1)>>

C5_NoOrphan ==
  /\ \A k \in 1..Len(det.positions) : ~PairAt(text, det.positions[k] - 1)
  /\ WellFormed(stripArg) => WellFormed(stripRes)
  /\ WellFormed(text) => \A k \in 1..Len(rets) : WellFormed(rets[k])

C5_PairsAreWhole == [][C5_PairStep]_vars /\ []C5_NoOrphan

\* an invisible pair dropped whole between two copied units
C5_Witness ==
  /\ pc = "stripped"
  /\ text = <<65, 56128, 56321, 66>>
  /\ rets[1] = <<65, 66>>

(***************************************************************************)
(* C6. An unpaired surrogate half is one isolated code unit: the detect    *)
(* iteration on it advances by 1 and counts nothing, the strip iteration   *)
(* on it advances by 1 and copies it; no iteration starts inside a pair or *)
(* past the end of the text, so every unpaired half gets its own           *)
(* iteration.                                                              *)
(***************************************************************************)
C6_LoneStep ==
  /\ (IsDetectIter /\ UnpairedAt(text, i)) =>
       (i' = i + 1 /\ det' = det)
  /\ (IsStripIter /\ UnpairedAt(stripArg, i)) =>
       (i' = i + 1 /\ stripRes' = Append(stripRes, CharAt(stripArg, i)))

C6_Aligned ==
  /\ pc = "detect" => (i <= Len(text) /\ ~PairAt(text, i - 1))
  /\ pc = "strip" => (i <= Len(stripArg) /\ ~PairAt(stripArg, i - 1))

C6_UnpairedIsIsolated == [][C6_LoneStep]_vars /\ []C6_Aligned

\* a lone high surrogate as the last code unit, copied
C6_Witness ==
  /\ pc = "stripped"
  /\ Len(rets) = 1
  /\ text = <<56321, 65, 56128>>
  /\ rets[1] = text

(***************************************************************************)
(* C7. Classification of the code point a detect iteration reads: a member *)
(* of [0xE0000, 0xE007F] increments TAG_CHARACTERS only, a member of       *)
(* [0xE0100, 0xE01EF] IVS_CHARACTERS only, a member of an explicit list    *)
(* that list's counter only, and any other code point (0xE0080, 0xE00FF,   *)
(* 0xE01F0 among them) changes nothing.                                    *)
(***************************************************************************)
OnlyIncrements(n) ==
  /\ det'.categories = [det.categories EXCEPT ![n] = @ + 1]
  /\ det'.totalCount = det.totalCount + 1

C7_ClassifyStep ==
  IsDetectIter =>
    LET c == codePointAt(text, i) IN
    /\ c \in 917504..917631 => OnlyIncrements("TAG_CHARACTERS")
    /\ c \in 917760..917999 => OnlyIncrements("IVS_CHARACTERS")
    /\ \A n \in DOMAIN INVISIBLE_CHARACTERS :
         c \in Members(n) => OnlyIncrements(n)
    /\ CategoriesOf(c) = {} => det' = det
    /\ c \in {917632, 917759, 918000} => det' = det

C7_Classification == [][C7_ClassifyStep]_vars

\* U+E007F, the last TAG code point, has been counted as a TAG character
C7_Witness ==
  /\ pc = "detected"
  /\ text = <<65, 56128, 56447>>
  /\ det.categories.TAG_CHARACTERS = 1
  /\ det.totalCount = 1

(***************************************************************************)
(* C8. The seven explicit lists are pairwise disjoint and disjoint from    *)
(* the TAG and IVS ranges, which are disjoint from each other: the code    *)
(* point a detect iteration reads belongs to at most one category.         *)
(***************************************************************************)
C8_CategoriesDisjoint ==
  /\ \A a, b \in DOMAIN INVISIBLE_CHARACTERS :
       a # b => Members(a) \cap Members(b) = {}
  /\ \A a \in DOMAIN INVISIBLE_CHARACTERS :
       /\ Members(a) \cap (TAG_START..TAG_END) = {}
       /\ Members(a) \cap (IVS_START..IVS_END) = {}
  /\ (TAG_START..TAG_END) \cap (IVS_START..IVS_END) = {}
  /\ IsDetectIter => Cardinality(CategoriesOf(codePointAt(text, i))) <= 1

\* U+2060, a ZERO_WIDTH member next to the MATH_OPERATORS block, is read
C8_Witness ==
  /\ IsDetectIter
  /\ codePointAt(text, i) = 8288
  /\ CategoriesOf(8288) = {"ZERO_WIDTH"}

(***************************************************************************)
(* C9. cleanText applies its steps in one fixed order, each on the output  *)
(* of the previous one: what it returns is the composition, in this order, *)
(* of strip invisible characters, strip markdown headers, unwrap bold,     *)
(* collapse repeating characters, remove formatting lines, normalize       *)
(* whitespace, apply word exchanges (a disabled step being the identity),  *)
(* then the newline collapse and trim; for every text and every option     *)
(* combination.                                                            *)
(***************************************************************************)
C9_SequentialComposition ==
  pc = "cleaned" =>
    cleanRes =
      CleanUp(
        ApplyWordExchanges(
          NormalizeWhitespace(
            RemoveFormattingLines(
              RemoveRepeating(
                RemoveBold(
                  RemoveHeaders(
                    RemoveInvisible(text, options),
                    options),
                  options),
                options),
              options),
            options),
          options, wordExchanges, varianceSettings))

\* "**" U+200B "**" with every option on: the strip makes the four stars
\* one bold span, which is unwrapped to nothing before the repeat collapse
\* could turn the stars into one
C9_Witness ==
  /\ pc = "cleaned"
  /\ text = <<42, 42, 8203, 42, 42>>
  /\ \A n \in OptionNames : options[n]
  /\ cleanRes = <<>>

(***************************************************************************)
(* C10. The string cleanText returns has no run of three or more newlines  *)
(* and neither starts nor ends with a whitespace character, whatever the   *)
(* text, the options, the exchange list and the variance settings.         *)
(***************************************************************************)
C10_Normalized ==
  pc = "cleaned" =>
    /\ \A k \in 1..(Len(cleanRes) - 2) :
         ~(cleanRes[k] = 10 /\ cleanRes[k + 1] = 10 /\ cleanRes[k + 2] = 10)
    /\ cleanRes # <<>> =>
         (~IsWhiteSpace(cleanRes[1]) /\ ~IsWhiteSpace(cleanRes[Len(cleanRes)]))

\* an exchange has put " b\n\n\nb " between two newlines; the three newlines
\* are collapsed to two and the ends trimmed
C10_Witness ==
  /\ pc = "cleaned"
  /\ text = <<10, 97, 10>>
  /\ options.wordExchanges /\ ~options.extraWhitespace
  /\ wordExchanges.supplied
  /\ cleanRes = <<98, 10, 10, 98>>

(***************************************************************************)
(* Vocabulary of the word-exchange properties                              *)
(***************************************************************************)
\* cleanText has just run its word-exchange statement, on the unchanged
\* input text (no other option is on), with a list supplied
WordExchangesRan ==
  /\ pc = "cleanUp"
  /\ options = [n \in OptionNames |-> n = "wordExchanges"]
  /\ wordExchanges.supplied

\* the active rows: enabled, both words non-blank
IsActive(ex) ==
  ex.enabled /\ trim(ex.badWord) # <<>> /\ trim(ex.goodWord) # <<>>

ActiveRows(list) == SelectSeq(list, IsActive)

\* the variants of a row's bad word that cleanText is to look for
VariantsOf(ex) ==
  IF varianceSettings.supplied /\ varianceSettings.enabled
    THEN generateWordVariations(ex.badWord, varianceSettings)
    ELSE <<ex.badWord>>

\* the variants that occur at index p of t as a whole word, letters
\* compared without case, every character of the variant standing for
\* itself
LiteralAt(t, p, word) ==
  /\ word # <<>>
  /\ p + Len(word) <= Len(t)
  /\ \A k \in 1..Len(word) : ToUpperUnit(CharAt(t, p + k - 1)) = ToUpperUnit(word[k])
  /\ AtWordBoundary(t, p)
  /\ AtWordBoundary(t, p + Len(word))

\* t with every whole-word occurrence of a variant, found left to right in
\* t itself, replaced by goodWord as it is written
RECURSIVE ReplacedLiterally(_, _, _, _)
ReplacedLiterally(t, p, variants, goodWord) ==
  IF p >= Len(t) THEN <<>>
  ELSE LET hits == { k \in 1..Len(variants) : LiteralAt(t, p, variants[k]) } IN
       IF hits = {}
         THEN <<CharAt(t, p)>> \o ReplacedLiterally(t, p + 1, variants, goodWord)
         ELSE goodWord
                \o ReplacedLiterally(t, p + Len(variants[MinOf(hits)]), variants, goodWord)

(***************************************************************************)
(* C11. With wordExchanges on, one active exchange and variance enabled,   *)
(* the word-exchange statement replaces every whole-word, case-insensitive *)
(* occurrence in the text of every generated variant of badWord by         *)
(* goodWord and leaves every other character as it was (good words with a  *)
(* "$" are left to C12).                                                   *)
(***************************************************************************)
C11_VariantsReplaced ==
  ( /\ WordExchangesRan
    /\ varianceSettings.supplied /\ varianceSettings.enabled
    /\ Len(ActiveRows(wordExchanges.list)) = 1
    /\ \A k \in 1..Len(ActiveRows(wordExchanges.list)[1].goodWord) :
         ActiveRows(wordExchanges.list)[1].goodWord[k] # 36 )
  => LET ex == ActiveRows(wordExchanges.list)[1] IN
     cleanRes = ReplacedLiterally(text, 0, VariantsOf(ex), ex.goodWord)

(***************************************************************************)
(* C12. What is put in place of each matched word is goodWord character    *)
(* for character, whatever goodWord is, "$" sequences such as "$&", "$1"   *)
(* or "$$" included (one active exchange, no variance: a single pass over  *)
(* the text).                                                              *)
(***************************************************************************)
C12_GoodWordIsLiteral ==
  ( /\ WordExchangesRan
    /\ ~(varianceSettings.supplied /\ varianceSettings.enabled)
    /\ Len(ActiveRows(wordExchanges.list)) = 1 )
  => LET ex == ActiveRows(wordExchanges.list)[1] IN
     cleanRes = ReplacedLiterally(text, 0, <<ex.badWord>>, ex.goodWord)

(***************************************************************************)
(* C13. A badWord with regex-special characters (. * + ? ^ $ { } ( ) | [   *)
(* ] \): the pattern source built from it is, unit for unit, the word      *)
(* itself as literals (so the matcher is always built, no character is     *)
(* left to act as an operator), and detectAllIssues and cleanText find     *)
(* exactly the literal whole-word occurrences: "a.b" is found in "a.b" and *)
(* not in "asb".                                                           *)
(***************************************************************************)
SpecialUnits == {46, 42, 43, 63, 94, 36, 123, 125, 40, 41, 124, 91, 93, 92}

\* each special alone, between "a" and "b", and every pair of specials
SpecialWords ==
  { <<c>> : c \in SpecialUnits }
    \cup { <<97, c, 98>> : c \in SpecialUnits }
    \cup { <<c, d>> : c \in SpecialUnits, d \in SpecialUnits }

\* the number of whole-word, case-insensitive occurrences of word in t from
\* index p on, every character standing for itself
RECURSIVE LiteralCount(_, _, _)
LiteralCount(t, p, word) ==
  IF p >= Len(t) THEN 0
  ELSE IF LiteralAt(t, p, word) THEN 1 + LiteralCount(t, p + Len(word), word)
  ELSE LiteralCount(t, p + 1, word)

RECURSIVE AppliedInOrder(_, _, _)
AppliedInOrder(t, rows, k) ==
  IF k > Len(rows) THEN t
  ELSE AppliedInOrder(
         ReplacedLiterally(t, 0, VariantsOf(rows[k]), rows[k].goodWord), rows, k + 1)

\* every whole-word occurrence of word in the text has unit u in its place
EndsAs(word, u) ==
  \A p \in 0..(Len(text) - 1) : LiteralAt(text, p, word) => CharAt(cleanRes, p) = u

C14_AppliedInListOrder ==
  /\ (WordExchangesRan /\ Len(ActiveRows(wordExchanges.list)) = 2)
       => cleanRes = AppliedInOrder(text, ActiveRows(wordExchanges.list), 1)
  /\ ( /\ WordExchangesRan
       /\ ~(varianceSettings.supplied /\ varianceSettings.enabled)
       /\ wordExchanges.list = << Exchange(<<97>>, <<98>>), Exchange(<<98>>, <<99>>) >> )
     => EndsAs(<<97>>, 99)
  /\ ( /\ WordExchangesRan
       /\ ~(varianceSettings.supplied /\ varianceSettings.enabled)
       /\ wordExchanges.list = << Exchange(<<98>>, <<99>>), Exchange(<<97>>, <<98>>) >> )
     => EndsAs(<<97>>, 98)

\* "a b" under [a -> b, b -> c] has become "c c"
C14_Witness ==
  /\ WordExchangesRan
  /\ wordExchanges.list = << Exchange(<<97>>, <<98>>), Exchange(<<98>>, <<99>>) >>
  /\ text = <<97, 32, 98>>
  /\ cleanRes = <<99, 32, 99>>

(***************************************************************************)
(* C15. An inactive exchange (enabled false, or a bad word or good word    *)
(* that is blank after trim) affects no result: cleanText and the          *)
(* wordExchanges count of detectAllIssues give the same on the list with   *)
(* that row removed. With options.wordExchanges false, or without a list,  *)
(* cleanText replaces no word and the count is 0.                          *)
(***************************************************************************)
\* the list argument without its row k
WithoutRow(exchanges, k) ==
  [ supplied |-> exchanges.supplied,
    list |-> SubSeq(exchanges.list, 1, k - 1)
               \o SubSeq(exchanges.list, k + 1, Len(exchanges.list)) ]

InactiveRows(list) == { k \in 1..Len(list) : ~IsActive(list[k]) }

C15_InactiveRowsAreIgnored ==
  /\ (pc = "cleanUp" /\ wordExchanges.supplied)
       => \A k \in InactiveRows(wordExchanges.list) :
            cleanRes = ApplyWordExchanges(text, options, WithoutRow(wordExchanges, k),
                                          varianceSettings)
  /\ (pc = "issues" /\ wordExchanges.supplied)
       => \A k \in InactiveRows(wordExchanges.list) :
            issues.additionalCleaning.wordExchanges
              = detectAllIssues(text, options, WithoutRow(wordExchanges, k))
                  .additionalCleaning.wordExchanges
  /\ (pc = "cleanUp" /\ (~options.wordExchanges \/ ~wordExchanges.supplied))
       => cleanRes = text
  /\ (pc = "issues" /\ (~options.wordExchanges \/ ~wordExchanges.supplied))
       => issues.additionalCleaning.wordExchanges = 0

\* the list with three inactive rows and a -> b has rewritten "a b" to
\* "b b": neither the disabled a -> c, nor the blank bad word, nor the row
\* with the blank good word has acted
C15_Witness ==
  /\ WordExchangesRan
  /\ Cardinality(InactiveRows(wordExchanges.list)) = 3
  /\ text = <<97, 32, 98>>
  /\ cleanRes = <<98, 32, 98>>

(***************************************************************************)
(* C16. The wordExchanges count of detectAllIssues is the sum, over the    *)
(* active exchanges, of the whole-word case-insensitive occurrences of the *)
(* bad word as it is written. The variance settings play no part in it:    *)
(* with variance enabled cleanText replaces "as" for the bad word "a",     *)
(* detection does not count it.                                            *)
(***************************************************************************)
RECURSIVE SumLiteralCounts(_, _, _)
SumLiteralCounts(t, rows, k) ==
  IF k > Len(rows) THEN 0
  ELSE LiteralCount(t, 0, rows[k].badWord) + SumLiteralCounts(t, rows, k + 1)

C16_CountIsOfLiteralBadWords ==
  (pc = "issues" /\ options.wordExchanges /\ wordExchanges.supplied)
    => issues.additionalCleaning.wordExchanges
         = SumLiteralCounts(text, ActiveRows(wordExchanges.list), 1)

\* "as a" with a -> b, b -> c and variance enabled: one occurrence is
\* counted, cleanText rewrites both words
C16_Witness ==
  /\ pc = "issues"
  /\ options.wordExchanges
  /\ wordExchanges.supplied
  /\ wordExchanges.list = << Exchange(<<97>>, <<98>>), Exchange(<<98>>, <<99>>) >>
  /\ varianceSettings.supplied /\ varianceSettings.enabled
  /\ text = <<97, 115, 32, 97>>
  /\ issues.additionalCleaning.wordExchanges = 1
  /\ ApplyWordExchanges(text, options, wordExchanges, varianceSettings) = <<99, 32, 99>>

(***************************************************************************)
(* C17. Every count of detectAllIssues is gated by its own flag. With      *)
(* invisibleChars false totalCount is 0, the nine category counts are 0    *)
(* and positions is empty; each of the five pattern counts is 0 when its   *)
(* flag is false. totalCount, the categories and the positions hold no     *)
(* pattern match and no word-exchange match: they are what the other       *)
(* flags being off and the list being left out would give.                 *)
(***************************************************************************)
PatternNames ==
  { "markdownHeaders", "markdownBold", "repeatingChars", "formattingLines",
    "extraWhitespace" }

OnlyInvisibleChars == [n \in OptionNames |-> n = "invisibleChars"]

C17_CountsAreGated ==
  pc = "issues" =>
    /\ ~options.invisibleChars =>
         /\ issues.totalCount = 0
         /\ \A c \in CategoryNames : issues.categories[c] = 0
         /\ issues.positions = <<>>
    /\ \A n \in PatternNames : ~options[n] => issues.additionalCleaning[n] = 0
    /\ ~options.wordExchanges => issues.additionalCleaning.wordExchanges = 0
    /\ options.invisibleChars =>
         /\ issues.totalCount
              = detectAllIssues(text, OnlyInvisibleChars, NoWordExchanges).totalCount
         /\ issues.categories
              = detectAllIssues(text, OnlyInvisibleChars, NoWordExchanges).categories
         /\ issues.positions
              = detectAllIssues(text, OnlyInvisibleChars, NoWordExchanges).positions

\* "#", newline, U+200B with invisibleChars and markdownHeaders off: both
\* counts are 0, and both would be 1 with every flag on
C17_Witness ==
  /\ pc = "issues"
  /\ text = <<35, 10, 8203>>
  /\ ~options.invisibleChars
  /\ ~options.markdownHeaders
  /\ issues.totalCount = 0
  /\ issues.additionalCleaning.markdownHeaders = 0
  /\ detectAllIssues(text, [n \in OptionNames |-> TRUE], wordExchanges).totalCount = 1
  /\ detectAllIssues(text, [n \in OptionNames |-> TRUE], wordExchanges)
       .additionalCleaning.markdownHeaders = 1

(***************************************************************************)
(* C18. The functions are pure. No step of any call changes the text or    *)
(* the other arguments; whenever a call has returned, every module-level   *)
(* RegExp has lastIndex 0, as when the module was loaded; and in every     *)
(* interleaving of calls, detectInvisibleCharacters, detectAllIssues and   *)
(* cleanText return what they returned the first time on these arguments.  *)
(* (The registry is a constant of the module: no action can assign it.)    *)
(***************************************************************************)
AtRest == pc \in {"idle", "detected", "stripped", "issues", "cleaned"}

SameAsFirst ==
  /\ (pc = "detected" /\ returned.detect # <<>>) => det = returned.detect[1]
  /\ (pc = "issues" /\ returned.issues # <<>>) => issues = returned.issues[1]
  /\ (pc = "cleaned" /\ returned.clean # <<>>) => cleanRes = returned.clean[1]

C18_Pure ==
  [][ /\ text' = text
      /\ args' = args
      /\ (pc = "strip" => stripArg' = stripArg)
      /\ (AtRest' => lastIndex' = [n \in SharedRegExps |-> 0])
      /\ SameAsFirst' ]_vars

\* cleanText has returned for the second time, after a detectAllIssues call,
\* on a text that every statement with a module-level RegExp rewrites or
\* counts in
C18_Witness ==
  /\ pc = "cleaned"
  /\ returned.clean # <<>>
  /\ returned.issues # <<>>
  /\ options = [n \in OptionNames |-> TRUE]
  /\ returned.issues[1].additionalCleaning.markdownBold >= 1
  /\ cleanRes # text

(***************************************************************************)
(* C19. generateWordVariations(w, settings) returns, without duplicates,   *)
(* exactly: w; with caseVariation also w in lower case, w in upper case    *)
(* and w with its first character in upper case and the rest in lower      *)
(* case; with pluralVariation also w + "s" if w does not end in "s", w     *)
(* without its last character if w ends in "s" and is longer than 1, and w *)
(* with its last character replaced by "ies" if w ends in "y" and is       *)
(* longer than 1. With enabled false it returns exactly w. The value of    *)
(* synonymVariation changes nothing.                                       *)
(***************************************************************************)
Lower(w) == [k \in 1..Len(w) |-> ToLowerUnit(w[k])]

Upper(w) == [k \in 1..Len(w) |-> ToUpperUnit(w[k])]

Capitalized(w) ==
  [k \in 1..Len(w) |-> IF k = 1 THEN ToUpperUnit(w[k]) ELSE ToLowerUnit(w[k])]

ButLast(w) == [k \in 1..(Len(w) - 1) |-> w[k]]

ExpectedVariants(w, settings) ==
  {w}
    \cup (IF settings.enabled /\ settings.caseVariation
            THEN {Lower(w), Upper(w), Capitalized(w)} ELSE {})
    \cup (IF settings.enabled /\ settings.pluralVariation
            THEN (IF Len(w) = 0 \/ w[Len(w)] # 115 THEN {w \o <<115>>} ELSE {})
                 \cup (IF Len(w) > 1 /\ w[Len(w)] = 115 THEN {ButLast(w)} ELSE {})
                 \cup (IF Len(w) > 1 /\ w[Len(w)] = 121
                         THEN {ButLast(w) \o <<105, 101, 115>>} ELSE {})
            ELSE {})

C19_VariationsAreExact ==
  pc = "variations" =>
    /\ { variations[k] : k \in 1..Len(variations) }
         = ExpectedVariants(wordExchanges.list[1].badWord, varianceSettings)
    /\ \A j, k \in 1..Len(variations) : variations[j] = variations[k] => j = k
    /\ variations
         = generateWordVariations(wordExchanges.list[1].badWord,
             [varianceSettings EXCEPT !.synonymVariation = ~@])

\* "ay" with case and plural variation: ay, AY, Ay, ays, aies (the lower
\* case form is the word itself and appears once)
C19_Witness ==
  /\ pc = "variations"
  /\ wordExchanges.list[1].badWord = <<97, 121>>
  /\ varianceSettings.enabled
  /\ varianceSettings.caseVariation
  /\ varianceSettings.pluralVariation
  /\ variations
       = << <<97, 121>>, <<65, 89>>, <<65, 121>>, <<97, 121, 115>>,
            <<97, 105, 101, 115>> >>

(***************************************************************************)
(* C20. With formattingLines enabled, a line that consists solely of 3 or  *)
(* more characters from - = _ * (optionally followed by whitespace) is     *)
(* deleted by cleanText, whatever the other flags are: a text that is one  *)
(* such line comes back empty.                                             *)
(***************************************************************************)
IsDividerLine(t) ==
  \E n \in 3..Len(t) :
    /\ \A k \in 1..n : t[k] \in {45, 61, 95, 42}
    /\ \A k \in (n + 1)..Len(t) : IsWhiteSpace(t[k])

C20_DividerLinesAreDeleted ==
  (pc = "cleaned" /\ options.formattingLines /\ IsDividerLine(text))
    => cleanRes = <<>>

(***************************************************************************)
(* C21. With repeatingChars enabled, every run of 3 or more identical      *)
(* consecutive characters, whatever the character (newline and the other   *)
(* line terminators included), is collapsed to one occurrence, and runs of *)
(* 1 or 2 stay as they are: after the repeating-characters statement of a  *)
(* call with no other option on, the text is its runs so collapsed.        *)
(***************************************************************************)
\* the length of the run of the unit at index p of t
RECURSIVE RunFrom(_, _)
RunFrom(t, p) ==
  IF p + 1 < Len(t) /\ CharAt(t, p + 1) = CharAt(t, p)
    THEN 1 + RunFrom(t, p + 1) ELSE 1

\* t from index p on, every run of 3 or more collapsed to one unit
RECURSIVE CollapsedRuns(_, _)
CollapsedRuns(t, p) ==
  IF p >= Len(t) THEN <<>>
  ELSE IF RunFrom(t, p) >= 3
    THEN <<CharAt(t, p)>> \o CollapsedRuns(t, p + RunFrom(t, p))
  ELSE <<CharAt(t, p)>> \o CollapsedRuns(t, p + 1)

OnlyRepeatingChars == [n \in OptionNames |-> n = "repeatingChars"]

C21_RunsCollapse ==
  (pc = "formattingLines" /\ options = OnlyRepeatingChars)
    => cleanRes = CollapsedRuns(text, 0)

(***************************************************************************)
(* C22. With markdownHeaders enabled, at every line start a prefix of 1 to *)
(* 6 "#" followed by at least one whitespace character is removed and the  *)
(* rest of that line is kept; a line that starts with 7 or more "#", or    *)
(* with "#" not followed by whitespace, is unchanged; and nothing of any   *)
(* other line is removed. After the header statement: a text without a     *)
(* header prefix is unchanged, a one-line text has lost exactly its        *)
(* prefix, and a last line that carries no header prefix is still the end  *)
(* of the text, as it was written.                                         *)
(***************************************************************************)
\* the number of "#" at index p of t
RECURSIVE Hashes(_, _)
Hashes(t, p) ==
  IF p < Len(t) /\ CharAt(t, p) = 35 THEN 1 + Hashes(t, p + 1) ELSE 0

\* the number of whitespace units at index p of t
RECURSIVE Blanks(_, _)
Blanks(t, p) ==
  IF p < Len(t) /\ IsWhiteSpace(CharAt(t, p)) THEN 1 + Blanks(t, p + 1) ELSE 0

\* a line starts at index p of t with 1 to 6 "#" and then whitespace
HeaderPrefixAt(t, p) ==
  /\ p = 0 \/ IsLineTerminator(CharAt(t, p - 1))
  /\ Hashes(t, p) \in 1..6
  /\ Blanks(t, p + Hashes(t, p)) >= 1

\* the index at which the last line of t starts
LastLineStart(t) ==
  MaxOf({0} \cup { q \in 1..Len(t) : IsLineTerminator(CharAt(t, q - 1)) })

LastLine(t) == SubSeq(t, LastLineStart(t) + 1, Len(t))

IsSuffix(x, t) ==
  Len(x) <= Len(t) /\ SubSeq(t, Len(t) - Len(x) + 1, Len(t)) = x

HeaderStatementRan ==
  pc = "markdownBold" /\ options.markdownHeaders

C22_HeaderPrefixRemoved ==
  HeaderStatementRan =>
    /\ (\A p \in 0..Len(text) : ~HeaderPrefixAt(text, p)) => cleanRes = text
    /\ ( /\ HeaderPrefixAt(text, 0)
         /\ \A k \in 1..Len(text) : ~IsLineTerminator(text[k]) )
       => cleanRes
            = SubSeq(text, Hashes(text, 0) + Blanks(text, Hashes(text, 0)) + 1,
                     Len(text))
    /\ ~HeaderPrefixAt(text, LastLineStart(text)) => IsSuffix(LastLine(text), cleanRes)

(***************************************************************************)
(* C23. For each of markdownHeaders, markdownBold, repeatingChars,         *)
(* formattingLines and extraWhitespace that is enabled, the count          *)
(* detectAllIssues reports for the input text equals the number of         *)
(* replacements cleanText performs for that rule on the same input and     *)
(* options: when the rule's statement is reached, the matches it is about  *)
(* to replace are as many as detectAllIssues counts.                       *)
(***************************************************************************)
\* the module-level pattern of a rule
PatternOf(rule) ==
  CASE rule = "markdownHeaders" -> "MARKDOWN_HEADER_REGEX"
    [] rule = "markdownBold"    -> "MARKDOWN_BOLD_REGEX"
    [] rule = "repeatingChars"  -> "REPEATING_CHARS_REGEX"
    [] rule = "formattingLines" -> "FORMATTING_LINES_REGEX"
    [] rule = "extraWhitespace" -> "EXTRA_WHITESPACE_REGEX"

C23_CountIsReplacements ==
  (pc \in PatternNames /\ options[pc])
    => MatchCount(cleanRes, RegExpOf(PatternOf(pc)))
         = detectAllIssues(text, options, wordExchanges).additionalCleaning[pc]

(***************************************************************************)
(* C24. INVISIBLE_REGEX accepts exactly the registry: a code point matches *)
(* it if and only if it is in invisibleSet; so removing every match of the *)
(* regex from a well-formed text gives the string that                     *)
(* stripInvisibleCharacters returns for it.                                *)
(***************************************************************************)
\* the text is the single code point c
IsCodePoint(t, c) == t = fromCodePoint(c)

C24_RegexAcceptsRegistry ==
  pc = "replaced" =>
    \A c \in ProbeCodePoints :
      (IsCodePoint(text, c) /\ ~(c \in 55296..57343))
        => (regexRes = <<>> <=> c \in invisibleSet)

C24_RegexIsStrip ==
  (pc = "replaced" /\ WellFormed(text))
    => /\ C24_RegexAcceptsRegistry
       /\ regexRes = rets[1]

(***************************************************************************)
(* C25. Matching is case-insensitive already, so case variation adds       *)
(* nothing: with the variance settings enabled and case variation alone    *)
(* switched on, the word-exchange statement gives the text that it gives   *)
(* with no variance; a good word inserted for one variant is not rewritten *)
(* by the pass of a later variant of the same exchange.                    *)
(***************************************************************************)
C25_CaseVariationAddsNothing ==
  (WordExchangesRan /\ varianceSettings = VarianceCaseOnly)
    => cleanRes = ApplyWordExchanges(text, options, wordExchanges, NoVarianceSettings)

(***************************************************************************)
(* Properties of the main screen                                           *)
(***************************************************************************)
\* the count of day d in the usage object at u
CountToday(h, u, d) ==
  IF h[u].lastResetDate = d THEN h[u].dailyProcessingCount ELSE 0

\* the free plan's daily limit
FreeLimit == SUBSCRIPTION_PLANS["free"]

\* the day's count under the captured subscription has reached its plan's limit
DailyLimitReached ==
  /\ closure # <<>>
  /\ currentPlan(closure) # <<>>
  /\ LimitReached(CountToday(usages, closure[1].usage, today), currentPlan(closure)[1])

\* C26: a cleaned text is published only in a processing whose incrementUsage
\* call returned true, and once the daily limit is reached no user action
\* publishes a new cleaned text.
C26_PublishedOnlyWhenGranted ==
  [][ /\ published' # published
           => /\ \E written \in BOOLEAN : incrementUsage(written)
              /\ usageRet' = <<TRUE>>
      /\ DailyLimitReached => published' = published ]_vars

(***************************************************************************)
(* Properties of the subscription provider                                 *)
(***************************************************************************)
\* C27: while the subscription is not active (for one, a trial whose trialEnd
\* or currentPeriodEnd has passed), then after an incrementUsage call
\* getRemainingUsage answers with what is left of the free plan's daily limit,
\* and the call has not returned true beyond that limit.
C27_LapsedPlanGetsFreeLimit ==
  ( /\ closure # <<>>
    /\ currentPlan(closure) # <<>>
    /\ ~hasActiveSubscription(closure, today)
    /\ usageRet # <<>> )
    => /\ getRemainingUsage(closure, usages, today)
            = Max0(FreeLimit - CountToday(usages, closure[1].usage, today))
       /\ usageRet = <<TRUE>>
            => CountToday(usages, closure[1].usage, today) <= FreeLimit

\* C28: under a plan with a finite daily limit L, an incrementUsage call
\* never takes the day's count past L, raises it by exactly 1 when it
\* returns true, and returns false when the day's count has reached L.
C28_CountStaysWithinLimit ==
  [][ ( /\ IncrementUsage
        /\ closure # <<>>
        /\ currentPlan(closure) # <<>>
        /\ currentPlan(closure)[1] # Unlimited )
      => /\ CountToday(usages, closure[1].usage, today) <= currentPlan(closure)[1]
              => CountToday(usages', closure[1].usage, today) <= currentPlan(closure)[1]
         /\ usageRet' = <<TRUE>>
              => CountToday(usages', closure[1].usage, today)
                   = CountToday(usages, closure[1].usage, today) + 1
         /\ CountToday(usages, closure[1].usage, today) >= currentPlan(closure)[1]
              => usageRet' = <<FALSE>> ]_vars

\* the free plan's limit was reached by calls of the day, and a call refused
C28_Witness ==
  /\ closure # <<>>
  /\ closure[1].planId = "free"
  /\ today = 1
  /\ usages[closure[1].usage] = [dailyProcessingCount |-> FreeLimit, lastResetDate |-> 1]
  /\ usageRet = <<FALSE>>

\* C29: an incrementUsage call that returns false leaves the subscription
\* state as it was: the state object, its usage.dailyProcessingCount and
\* usage.lastResetDate, and the stored copy.
C29_FalseLeavesStateUnchanged ==
  [][ (IncrementUsage /\ usageRet' = <<FALSE>>)
      => /\ subscription' = subscription
         /\ usages' = usages
         /\ stored' = stored ]_vars

\* C30: loadSubscriptionData always completes, and when it has, isLoading is
\* false and the subscription is not null: so with nothing stored, after a
\* failed read, with an item that does not parse, and after a failed sync.
C30_LoadCompletes ==
  <>[](loadPc = "done" /\ ~isLoading /\ subscription # <<>>)

\* the call completed on the path through the outer catch
C30_Witness ==
  /\ loadPc = "done"
  /\ storedSubscription = Malformed
  /\ subscription = SetSubscription(createTrialSubscription(today, Len(usages)))

=============================================================================
